---- MODULE Spec2Model ----
(***************************************************************************)
(* A model of the gemini_latex package: the session/version store of       *)
(* document_editor.py and the multi-engine compilation of                  *)
(* latex_compiler.py.  Each part has its own specification over the same   *)
(* variables: Spec (the session store, one caller) and SpecCompile (the    *)
(* compiler, one call at a time, step by step).                            *)
(*                                                                         *)
(* The session directory is a map from session id to the session.json      *)
(* record (json.dump / json.load of strings, integers and lists gives the  *)
(* same record back) and a map from path to the contents of the v<N>.tex   *)
(* files; writes to it succeed.  datetime.now() is read off the same       *)
(* clock as time.time(), in whole seconds.  The generation client and the  *)
(* engine processes are the environment: their outcomes are chosen         *)
(* nondeterministically from the sets below.                               *)
(***************************************************************************)
EXTENDS Integers, Sequences, FiniteSets, TLC

VARIABLES
    now,          \* the wall clock in whole seconds, int(time.time())
    sessionJson,  \* session id -> contents of <session_dir>/<id>/session.json
    texFiles,     \* path -> contents of the v<N>.tex files under session_dir
    lastCall,     \* the last DocumentEditor call: operation, arguments, result
    writes,       \* the number of calls so far that wrote a session.json
    appended,     \* session id -> successful appending calls since its creation
    \* latex_compiler.py: the compile_latex_to_pdf call in progress
    latex_engine,     \* self.latex_engine of the compiler the call is made on
    pc,               \* where the call stands; "idle" between calls
    output_path,      \* the output_path argument, "None" when omitted
    working_dir,      \* working_dir after line 70: the caller's, or the temporary one
    cleanup_temp,     \* whether the call made the working directory itself
    files,            \* path -> "absent", or who left the file: "fresh" (this call) or "stale"
    engines_to_try,   \* the candidate list of _run_latex_compilation
    candidate,        \* index in engines_to_try of the candidate at hand
    run_number,       \* range(2) index of the run at hand
    success,          \* the success flag of the candidate at hand
    compilation_log,  \* the list compilation_log
    last_error,       \* last_error, "None" until an exception was caught
    left,             \* the candidates whose runs ended with an artifact of this call on disk
    processes,        \* the engine processes this call started, in order: probes and runs
    outcome           \* how the last finished call ended: returned value or raised error

(***************************************************************************)
(* Bounds and input domains                                                *)
(***************************************************************************)
MaxTime == 1
MaxWrites == 4
\* calls the two concurrent callers begin in one run
MaxCalls == 3

DocNames == {"letter", "cv"}
Prompts == {"thank you letter"}
InitialMarkups == {"\\documentclass{article}...\\end{document}"}
\* what generate_latex can return: response.text.strip(), the empty string included
GeneratedTexts == {"", "\\documentclass{article}short\\end{document}"}
Requests == {"make it shorter"}

(***************************************************************************)
(* document_editor.py                                                      *)
(***************************************************************************)
Last(s) == s[Len(s)]

\* f"{document_name}_{int(time.time())}"
SessionId(document_name, t) == document_name \o "_" \o ToString(t)

\* a layout that keeps every session's files in one directory
TexPath_shared(session_id, n) == "v" \o ToString(n) \o ".tex"

\* os.path.join(session_path, f"v{n}.tex"), relative to session_dir
TexPath(session_id, n) == session_id \o "/v" \o ToString(n) \o ".tex"

\* the ids callers pass: those of the stored sessions, and one that was never created
MissingId == "nosuch_0"
CallIds == DOMAIN sessionJson \cup {MissingId}
\* the revert targets callers pass: every stored version number, 0 and one past the newest
RevertTargets(session_id) ==
    IF session_id \in DOMAIN sessionJson
    THEN 0..(Len(sessionJson[session_id].versions) + 1)
    ELSE {1}

\* writing a file: create or replace
WriteFile(fs, path, content) ==
    [p \in DOMAIN fs \cup {path} |-> IF p = path THEN content ELSE fs[p]]

InitialVersion_blank(initial_latex_code, t) ==
    [version |-> 1,
     latex_code |-> "",
     change_description |-> "Initial version",
     timestamp |-> t]

\* lines 62-67: the first entry of versions
InitialVersion(initial_latex_code, t) ==
    [version |-> 1,
     latex_code |-> initial_latex_code,
     change_description |-> "Initial version",
     timestamp |-> t]

NewSessionData(session_id, initial_latex_code, document_name, original_prompt, t) ==
    [session_id |-> session_id,
     document_name |-> document_name,
     original_prompt |-> original_prompt,
     created_at |-> t,
     versions |-> <<InitialVersion(initial_latex_code, t)>>,
     current_version |-> 1]

\* a slip that forgets the increment
NextVersionNumber_stale(session_data) == session_data.current_version

\* new_version = current_version + 1
NextVersionNumber(session_data) == session_data.current_version + 1

\* a slip that records a fixed description instead of the one passed in
NewVersionData_fixedDescription(new_version, latex_code, change_description, t) ==
    [version |-> new_version,
     latex_code |-> latex_code,
     change_description |-> "Modified document",
     timestamp |-> t]

\* new_version_data = {"version": ..., "latex_code": ..., "change_description": ..., "timestamp": ...}
NewVersionData(new_version, latex_code, change_description, t) ==
    [version |-> new_version,
     latex_code |-> latex_code,
     change_description |-> change_description,
     timestamp |-> t]

\* f"Reverted to version {version_number}"
RevertDescription(version_number) == "Reverted to version " \o ToString(version_number)

\* a slip that replaces the newest entry instead of appending
AppendVersion_overwriteLast(session_data, new_version_data) ==
    [session_data EXCEPT
        !.versions = Append(SubSeq(@, 1, Len(@) - 1), new_version_data),
        !.current_version = new_version_data.version]

\* a slip that skips the append when the markup did not change
AppendVersion_dedupe(session_data, new_version_data) ==
    IF new_version_data.latex_code = session_data.versions[Len(session_data.versions)].latex_code
    THEN session_data
    ELSE [session_data EXCEPT !.versions = Append(@, new_version_data),
                              !.current_version = new_version_data.version]

\* session_data["versions"].append(new_version_data); session_data["current_version"] = new_version
AppendVersion(session_data, new_version_data) ==
    [session_data EXCEPT !.versions = Append(@, new_version_data),
                         !.current_version = new_version_data.version]

\* the loop of revert_to_version: the first version whose number is version_number, 0 if none
RECURSIVE FindVersionFrom(_, _, _)
FindVersionFrom(versions, version_number, i) ==
    IF i > Len(versions) THEN 0
    ELSE IF versions[i].version = version_number THEN i
    ELSE FindVersionFrom(versions, version_number, i + 1)

\* a slip that takes the newest version whenever the target exists
FindVersion_latest(versions, version_number) ==
    IF FindVersionFrom(versions, version_number, 1) = 0 THEN 0 ELSE Len(versions)

\* a slip that falls back to the newest version when the target is past the end
FindVersion_clamped(versions, version_number) ==
    IF version_number > Len(versions) THEN Len(versions)
    ELSE FindVersionFrom(versions, version_number, 1)

FindVersion(versions, version_number) == FindVersionFrom(versions, version_number, 1)

\* a slip that drops the markup from the failure result
ModificationFailure_noMarkup(session_data, current_latex_code) ==
    [success |-> FALSE,
     error |-> "Failed to apply modification: ",
     latex_code |-> "",
     session_data |-> session_data]

\* the except branch of apply_modification
ModificationFailure(session_data, current_latex_code) ==
    [success |-> FALSE,
     error |-> "Failed to apply modification: ",
     latex_code |-> current_latex_code,
     session_data |-> session_data]

\* DocumentEditor.list_sessions, and session files that no longer parse
VARIABLES
    corrupt,   \* the session folders whose session.json json.load cannot read
    listed     \* the last two list_sessions calls since the store last changed:
               \* the store's write count and the corrupt folders at the call,
               \* and the summaries returned

listVars == <<corrupt, listed>>

\* two callers of one DocumentEditor, their calls taken statement by statement
VARIABLES
    callers,   \* per caller: the call in progress, its position and its locals
    pdfFiles,  \* the v{n}.pdf files in the session folders
    acted,     \* the session id of the call that took the last step
    calls      \* calls begun so far

procVars == <<callers, pdfFiles, acted, calls>>

\* what the parts added after the store and the compiler leave alone
auxVars == <<listVars, procVars>>

\* InteractiveSession (interactive_session.py), with the prompts of PDFViewer
VARIABLES
    lpc,               \* where the session is: idle, or a state of _run_editing_loop
    loop_session,      \* session_id
    current_version,   \* local of _run_editing_loop
    current_pdf_path,  \* local of _run_editing_loop
    loop_result,       \* how the last interactive call ended
    step               \* the last step taken: the state it left, the user's input,
                       \* and whether it changed the session store

loopVars == <<lpc, loop_session, current_version, current_pdf_path, loop_result, step>>

\* GeminiLaTeXProcessor.generate_and_compile (main.py)
VARIABLES
    latex_compiler,      \* self.latex_compiler, as the engine it was constructed with
    gpc,                 \* where the call is: idle, generate, switch, compile, regenerate
    save_tex,            \* argument
    retry_on_error,      \* argument
    latex_code,          \* local: the markup in hand, "None" before the first generation
    compilation_attempt, \* local
    log_local,           \* local compilation_log: "unbound" until a compile call returns
    error_msg,           \* local: str(e) of the last compile exception
    tex_on_disk,         \* content of tex_file in the output directory, "absent" if none
    result,              \* how the last call ended: the dictionary returned, or the exception
    engine_at_call,      \* the engine of self.latex_compiler when the call began
    generation_calls,    \* number of gemini_client.generate_latex calls of this call
    compilations,        \* the compile_latex_to_pdf calls of this call, in order
    tex_writes,          \* what this call wrote to tex_file, in order
    response,            \* what the remote model answered to the last generate_latex
    enhanced_context     \* the context of the regeneration call, as lines; <<>> before it

orchVars == <<latex_compiler, gpc, save_tex, retry_on_error, latex_code,
              compilation_attempt, log_local, error_msg, tex_on_disk, result,
              engine_at_call, generation_calls, compilations, tex_writes, response,
              enhanced_context>>

compVars == <<latex_engine, pc, output_path, working_dir, cleanup_temp, files,
              engines_to_try, candidate, run_number, success, compilation_log,
              last_error, left, processes, outcome>>
storeVars == <<now, sessionJson, texFiles, lastCall, writes, appended>>

NoCall == [op |-> "none", before |-> <<>>]

\* create_editing_session(initial_latex_code, document_name, original_prompt)
CreateEditingSession(initial_latex_code, document_name, original_prompt) ==
    LET session_id == SessionId(document_name, now)
        session_data == NewSessionData(session_id, initial_latex_code, document_name,
                                       original_prompt, now)
    IN  /\ writes < MaxWrites
        /\ sessionJson' = WriteFile(sessionJson, session_id, session_data)
        /\ texFiles' = WriteFile(texFiles, TexPath(session_id, 1), initial_latex_code)
        /\ writes' = writes + 1
        /\ appended' = WriteFile(appended, session_id, 0)
        /\ lastCall' = [op |-> "create", before |-> sessionJson, returned |-> session_id]
        /\ UNCHANGED <<now, compVars>>

\* apply_modification(session_id, modification_request): generated is the text
\* generate_latex returns when generation_ok, and generate_latex raises otherwise
ApplyModification(session_id, modification_request, generation_ok, generated) ==
    IF session_id \notin DOMAIN sessionJson
    THEN \* load_session raises outside the try block
         /\ lastCall' = [op |-> "apply", before |-> sessionJson, session_id |-> session_id,
                         request |-> modification_request, raised |-> "FileNotFoundError"]
         /\ UNCHANGED <<now, sessionJson, texFiles, writes, appended, compVars>>
    ELSE LET session_data == sessionJson[session_id]
             current_latex_code == Last(session_data.versions).latex_code
             new_version == NextVersionNumber(session_data)
             new_version_data == NewVersionData(new_version, generated,
                                                modification_request, now)
             updated == AppendVersion(session_data, new_version_data)
         IN  IF generation_ok
             THEN /\ writes < MaxWrites
                  /\ writes' = writes + 1
                  /\ sessionJson' = WriteFile(sessionJson, session_id, updated)
                  /\ texFiles' = WriteFile(texFiles, TexPath(session_id, new_version), generated)
                  /\ appended' = [appended EXCEPT ![session_id] = @ + 1]
                  /\ lastCall' = [op |-> "apply", before |-> sessionJson,
                                  session_id |-> session_id,
                                  request |-> modification_request, raised |-> "",
                                  generated |-> generated,
                                  result |-> [success |-> TRUE, new_version |-> new_version,
                                              latex_code |-> generated,
                                              session_data |-> updated]]
                  /\ UNCHANGED <<now, compVars>>
             ELSE /\ lastCall' = [op |-> "apply", before |-> sessionJson,
                                  session_id |-> session_id,
                                  request |-> modification_request, raised |-> "",
                                  result |-> ModificationFailure(session_data,
                                                                 current_latex_code)]
                  /\ UNCHANGED <<now, sessionJson, texFiles, writes, appended, compVars>>

\* revert_to_version(session_id, version_number)
RevertToVersion(session_id, version_number) ==
    IF session_id \notin DOMAIN sessionJson
    THEN /\ lastCall' = [op |-> "revert", before |-> sessionJson, session_id |-> session_id,
                         version_number |-> version_number, raised |-> "FileNotFoundError"]
         /\ UNCHANGED <<now, sessionJson, texFiles, writes, appended, compVars>>
    ELSE LET session_data == sessionJson[session_id]
             found == FindVersion(session_data.versions, version_number)
         IN  IF found = 0
             THEN /\ lastCall' = [op |-> "revert", before |-> sessionJson,
                                  session_id |-> session_id,
                                  version_number |-> version_number, raised |-> "",
                                  result |-> [success |-> FALSE,
                                              error |-> "Version " \o ToString(version_number)
                                                            \o " not found"]]
                  /\ UNCHANGED <<now, sessionJson, texFiles, writes, appended, compVars>>
             ELSE LET target_version == session_data.versions[found]
                      new_version == NextVersionNumber(session_data)
                      new_version_data == NewVersionData(new_version,
                                                         target_version.latex_code,
                                                         RevertDescription(version_number), now)
                      updated == AppendVersion(session_data, new_version_data)
                  IN  /\ writes < MaxWrites
                      /\ writes' = writes + 1
                      /\ sessionJson' = WriteFile(sessionJson, session_id, updated)
                      /\ texFiles' = WriteFile(texFiles, TexPath(session_id, new_version),
                                               target_version.latex_code)
                      /\ appended' = [appended EXCEPT ![session_id] = @ + 1]
                      /\ lastCall' = [op |-> "revert", before |-> sessionJson,
                                      session_id |-> session_id,
                                      version_number |-> version_number, raised |-> "",
                                      result |-> [success |-> TRUE, new_version |-> new_version,
                                                  latex_code |-> target_version.latex_code,
                                                  reverted_from |-> version_number]]
                      /\ UNCHANGED <<now, compVars>>

\* a second of wall-clock time passes
Tick ==
    /\ now < MaxTime
    /\ now' = now + 1
    /\ UNCHANGED <<sessionJson, texFiles, lastCall, writes, appended, compVars>>

(***************************************************************************)
(* latex_compiler.py                                                       *)
(***************************************************************************)
\* self.latex_engine is any string the caller configured; "latex" stands for
\* one that is none of the three known engines
ConfiguredEngines == {"pdflatex", "xelatex", "lualatex", "latex"}
TempDir == "tmp"
WorkingDirs == {"None", "work"}
OutputPaths == {"None", "out/result.pdf", "work/document.pdf"}

\* os.path.join(working_dir, "document.tex").replace('.tex', '.pdf'), for a
\* directory name without ".tex" in it
PdfPath(dir) == dir \o "/document.pdf"

\* what the calls can leave on disk: the temporary directory, document.pdf in
\* either working directory, and the copy at the output path
Paths == {TempDir, PdfPath(TempDir), PdfPath("work"), "out/result.pdf"}

\* how one subprocess.run of an engine can end: it exits with a return code,
\* it runs into the 120 s timeout, or the call raises another exception; with
\* what the process printed, and what it did to document.pdf meanwhile
RunOutcome(kind, returncode, stdout, stderr, pdf) ==
    [kind |-> kind, returncode |-> returncode, stdout |-> stdout, stderr |-> stderr,
     pdf |-> pdf]

RunOutcomes ==
    {RunOutcome("exit", 0, "This is TeX", "", "write"),
     RunOutcome("exit", 0, "This is TeX", "warning", "keep"),
     RunOutcome("exit", 1, "! Undefined control sequence.", "", "keep"),
     RunOutcome("exit", 1, "auto expansion is only possible with scalable fonts", "", "write"),
     RunOutcome("exit", 1, "This is TeX", "Fatal error", "remove"),
     RunOutcome("timeout", 0, "", "", "keep"),
     RunOutcome("timeout", 0, "", "", "write"),
     RunOutcome("error", 0, "", "", "keep")}

\* how the --version probe of _is_engine_available can end: return code 0, a
\* non-zero return code / FileNotFoundError / TimeoutExpired, or another exception
ProbeOutcomes == {"available", "unavailable", "error"}

\* a table with the fallbacks of xelatex in the other order
Fallbacks_swapped(engine) ==
    IF engine = "pdflatex" THEN <<"xelatex", "lualatex">>
    ELSE IF engine = "xelatex" THEN <<"pdflatex", "lualatex">>
    ELSE IF engine = "lualatex" THEN <<"xelatex", "pdflatex">>
    ELSE <<>>

\* a table that adds all three known engines after the primary
Fallbacks_all(engine) == <<"pdflatex", "xelatex", "lualatex">>

\* lines 113-118
Fallbacks(engine) ==
    IF engine = "pdflatex" THEN <<"xelatex", "lualatex">>
    ELSE IF engine = "xelatex" THEN <<"lualatex", "pdflatex">>
    ELSE IF engine = "lualatex" THEN <<"xelatex", "pdflatex">>
    ELSE <<>>

EnginesToTry(engine) == <<engine>> \o Fallbacks(engine)

\* os.path.exists(path)
Exists(fs, path) == fs[path] # "absent"

\* a slip that deletes the artifact but leaves the directory behind
Cleanup_fileOnly(fs, cleanup) ==
    IF cleanup
    THEN [p \in DOMAIN fs |-> IF p = PdfPath(TempDir) THEN "absent" ELSE fs[p]]
    ELSE fs

\* the finally block: shutil.rmtree(working_dir, ignore_errors=True), the
\* directory and what is in it
Cleanup(fs, cleanup) ==
    IF cleanup
    THEN [p \in DOMAIN fs |->
            IF p \in {TempDir, PdfPath(TempDir)} THEN "absent" ELSE fs[p]]
    ELSE fs

\* what a run of the engine does to document.pdf
AfterRun(fs, path, effect) ==
    IF effect = "write" THEN [fs EXCEPT ![path] = "fresh"]
    ELSE IF effect = "remove" THEN [fs EXCEPT ![path] = "absent"]
    ELSE fs

\* the files a new call finds: what earlier calls left behind is stale
Aged(fs) == [p \in DOMAIN fs |-> IF fs[p] = "absent" THEN "absent" ELSE "stale"]

Engine == engines_to_try[candidate]

\* a numbering that counts the skipped candidates as attempts
RunLog_numberedAfterSkip(engine, n, o) ==
    <<"Run " \o ToString(n + 2) \o " with " \o engine \o ":", o.stdout>>
    \o (IF o.stderr # "" THEN <<"STDERR:", o.stderr>> ELSE <<>>)

\* the lines a run that exited appends to compilation_log (lines 146-160)
RunLog(engine, n, o) ==
    <<"Run " \o ToString(n + 1) \o " with " \o engine \o ":", o.stdout>>
    \o (IF o.stderr # "" THEN <<"STDERR:", o.stderr>> ELSE <<>>)
    \o (IF o.returncode # 0
        THEN <<"ERROR: LaTeX compilation failed on run " \o ToString(n + 1)
                   \o " with " \o engine>>
             \o (IF o.stdout = "auto expansion is only possible with scalable fonts"
                 THEN <<"HINT: Font expansion error detected. Trying different engine...">>
                 ELSE <<>>)
             \o (IF o.stdout = "! Undefined control sequence."
                 THEN <<"HINT: Undefined control sequence detected. This may require specific packages.">>
                 ELSE <<>>)
        ELSE <<>>)

NoOutcome == [kind |-> "none"]

\* compile_latex_to_pdf(latex_code, output, dir) is called on a compiler whose
\* engine is engine: lines 69-73, with tempfile.mkdtemp() making an empty directory
CompileStart(engine, output, dir) ==
    /\ pc = "idle"
    /\ latex_engine' = engine
    /\ output_path' = output
    /\ working_dir' = IF dir = "None" THEN TempDir ELSE dir
    /\ cleanup_temp' = (dir = "None")
    /\ files' = [Aged(files) EXCEPT ![TempDir] = IF dir = "None" THEN "fresh" ELSE @]
    /\ processes' = <<>>
    /\ engines_to_try' = <<>>
    /\ candidate' = 0
    /\ run_number' = 0
    /\ success' = TRUE
    /\ compilation_log' = <<>>
    /\ last_error' = "None"
    /\ left' = {}
    /\ outcome' = NoOutcome
    /\ pc' = "write_tex"
    /\ UNCHANGED storeVars

\* what an exception other than the RuntimeError of line 189 leaves the caller
\* with: no log
Raised(error, message) ==
    [kind |-> "raised", error |-> error, message |-> message, log |-> <<>>]

\* lines 77-79 and 108-120: document.tex is written (the engines' input, whose
\* content nothing below reads), and _run_latex_compilation builds its candidate
\* list; or open() / f.write() raises, and the finally block runs
WriteTex(ok) ==
    /\ pc = "write_tex"
    /\ IF ok
       THEN /\ engines_to_try' = EnginesToTry(latex_engine)
            /\ candidate' = 1
            /\ pc' = "probe"
            /\ UNCHANGED <<files, outcome>>
       ELSE /\ files' = Cleanup(files, cleanup_temp)
            /\ outcome' = Raised("OSError", "document.tex")
            /\ pc' = "idle"
            /\ UNCHANGED <<engines_to_try, candidate>>
    /\ UNCHANGED <<storeVars, latex_engine, output_path, working_dir, cleanup_temp,
                   run_number, success, compilation_log, last_error, left, processes>>

\* the for loop moves to the next candidate, or ends
NextCandidate ==
    /\ candidate' = candidate + 1
    /\ pc' = IF candidate + 1 > Len(engines_to_try) THEN "exhausted" ELSE "probe"

\* the candidates whose check of lines 170-177 found an artifact written during
\* this call
LeftBy(fs) ==
    IF fs[PdfPath(working_dir)] = "fresh" THEN left \cup {Engine} ELSE left

\* lines 123-129 (and 181-184 when the probe raises)
Probe(o) ==
    /\ pc = "probe"
    /\ processes' = Append(processes, [kind |-> "probe", engine |-> Engine, n |-> 0,
                                       ended |-> o])
    /\ IF o = "available"
       THEN /\ compilation_log' = Append(compilation_log, "\n=== Trying engine: " \o Engine \o " ===")
            /\ success' = TRUE
            /\ run_number' = 0
            /\ pc' = "run"
            /\ UNCHANGED <<candidate, last_error>>
       ELSE IF o = "unavailable"
       THEN /\ compilation_log' = Append(compilation_log,
                                         "Engine " \o Engine \o " not available, skipping...")
            /\ NextCandidate
            /\ UNCHANGED <<success, run_number, last_error>>
       ELSE /\ last_error' = "probe error"
            /\ compilation_log' = Append(compilation_log,
                                         "EXCEPTION with " \o Engine \o ": probe error")
            /\ NextCandidate
            /\ UNCHANGED <<success, run_number>>
    /\ UNCHANGED <<storeVars, latex_engine, output_path, working_dir, cleanup_temp,
                   files, engines_to_try, left, outcome>>

\* how a run ended, as lines 152 and 165 tell the cases apart
RunEnd(o) ==
    IF o.kind = "exit" THEN (IF o.returncode = 0 THEN "zero" ELSE "nonzero") ELSE o.kind

\* one pass of the loop of lines 133-168 (and 181-184 when the run raises)
Run(o) ==
    /\ pc = "run"
    /\ processes' = Append(processes, [kind |-> "run", engine |-> Engine,
                                       n |-> run_number + 1, ended |-> RunEnd(o)])
    /\ files' = AfterRun(files, PdfPath(working_dir), o.pdf)
    /\ IF o.kind = "exit"
       THEN /\ compilation_log' = compilation_log \o RunLog(Engine, run_number, o)
            /\ IF o.returncode # 0
               THEN success' = FALSE /\ pc' = "check" /\ UNCHANGED run_number
               ELSE IF run_number = 1
               THEN pc' = "check" /\ UNCHANGED <<success, run_number>>
               ELSE run_number' = 1 /\ UNCHANGED <<success, pc>>
            /\ UNCHANGED <<candidate, last_error>>
       ELSE IF o.kind = "timeout"
       THEN /\ compilation_log' = Append(compilation_log,
                "ERROR: " \o Engine \o " compilation timed out after 120 seconds")
            /\ success' = FALSE
            /\ pc' = "check"
            /\ UNCHANGED <<candidate, run_number, last_error>>
       ELSE /\ last_error' = "run error"
            /\ compilation_log' = Append(compilation_log,
                                         "EXCEPTION with " \o Engine \o ": run error")
            /\ NextCandidate
            /\ UNCHANGED <<success, run_number, left>>
    /\ UNCHANGED <<storeVars, latex_engine, output_path, working_dir, cleanup_temp,
                   engines_to_try, left, outcome>>

\* a check that takes any document.pdf for a clean success
Verdict_ignoresRuns(ok, exists) ==
    IF exists THEN "SUCCESS: PDF generated successfully with "
    ELSE "FAILED: No PDF generated with "

\* lines 171-179: what the check after the runs logs for the candidate
Verdict(ok, exists) ==
    IF ok /\ exists THEN "SUCCESS: PDF generated successfully with "
    ELSE IF exists THEN "WARNING: PDF generated with errors using "
    ELSE "FAILED: No PDF generated with "

\* lines 170-179: the check of os.path.exists(pdf_path) after the runs
CheckPdf ==
    /\ pc = "check"
    /\ left' = LeftBy(files)
    /\ compilation_log' =
           Append(compilation_log,
                  Verdict(success, Exists(files, PdfPath(working_dir))) \o Engine)
    /\ IF Exists(files, PdfPath(working_dir))
       THEN pc' = "copy" /\ UNCHANGED candidate
       ELSE NextCandidate
    /\ UNCHANGED <<storeVars, latex_engine, output_path, working_dir, cleanup_temp, files,
                   engines_to_try, run_number, success, last_error, processes, outcome>>

\* line 189: raise RuntimeError(f"{error_msg}. See compilation log for details."):
\* the exception holds the message; the list compilation_log is not passed to it
AllFailedError(log, error) ==
    [kind |-> "raised", error |-> "RuntimeError",
     message |-> "All LaTeX engines failed. Last error: " \o error
                 \o ". See compilation log for details.",
     log |-> <<>>]

\* lines 186-189, then the finally block: no candidate returned
AllFailed ==
    /\ pc = "exhausted"
    /\ compilation_log' = Append(compilation_log,
            "FINAL ERROR: All LaTeX engines failed. Last error: " \o last_error)
    /\ files' = Cleanup(files, cleanup_temp)
    /\ outcome' = AllFailedError(compilation_log', last_error)
    /\ pc' = "idle"
    /\ UNCHANGED <<storeVars, latex_engine, output_path, working_dir, cleanup_temp,
                   engines_to_try, candidate, run_number, success, last_error, left,
                   processes>>

\* lines 84-95: _run_latex_compilation returned; copy to output_path if given
\* (mkdir or shutil.copy2 can raise, and copy2 raises SameFileError when
\* output_path is the file itself), then the finally block, then the return
Finish(copy_ok) ==
    /\ pc = "copy"
    /\ IF output_path = "None"
       THEN /\ files' = Cleanup(files, cleanup_temp)
            /\ outcome' = [kind |-> "returned", pdf_path |-> PdfPath(working_dir),
                           log |-> compilation_log]
       ELSE IF output_path = PdfPath(working_dir)
       THEN /\ files' = Cleanup(files, cleanup_temp)
            /\ outcome' = Raised("SameFileError", output_path)
       ELSE IF ~copy_ok
       THEN /\ files' = Cleanup(files, cleanup_temp)
            /\ outcome' = Raised("OSError", output_path)
       ELSE /\ files' = Cleanup([files EXCEPT ![output_path] = files[PdfPath(working_dir)]],
                                cleanup_temp)
            /\ outcome' = [kind |-> "returned", pdf_path |-> output_path,
                           log |-> compilation_log]
    /\ pc' = "idle"
    /\ UNCHANGED <<storeVars, latex_engine, output_path, working_dir, cleanup_temp,
                   engines_to_try, candidate, run_number, success, compilation_log,
                   last_error, left, processes>>

\* ---------------------------------------------------------------------------
\* GeminiLaTeXProcessor.generate_and_compile (main.py lines 37-151).  The call
\* to compile_latex_to_pdf is one step here, ending in one of the ways the
\* compiler model above ends: a returned (path, log), the RuntimeError of line
\* 189, or another exception.

Markups ==
    {"\\documentclass{article} letter",
     "\\documentclass{altacv} cv",
     "% altacv sample",
     ""}

\* needle in code, for the two needles line 84 looks for
Contains(needle, code) ==
    IF needle = "\\documentclass"
    THEN code \in {"\\documentclass{article} letter", "\\documentclass{altacv} cv"}
    ELSE IF needle = "altacv"
    THEN code \in {"\\documentclass{altacv} cv", "% altacv sample"}
    ELSE FALSE

\* response.text as the remote model sends it: the markup between white space
Padded(m) == " " \o m \o "\n"

\* what self.model.generate_content does: a response with text, an error of
\* the service, or the request timeout
RemoteResponses ==
    {[kind |-> "text", text |-> Padded(m)] : m \in Markups}
    \cup {[kind |-> "error", text |-> "quota exceeded"],
          [kind |-> "timeout", text |-> "Deadline Exceeded"]}

\* text consists of white space only
IsBlank(text) == text = Padded("")

\* str.strip() on the texts of RemoteResponses
Strip(text) == CHOOSE m \in Markups : Padded(m) = text

\* a client that answers a failed remote call with empty markup
GenerateLatex_blankOnError(r) ==
    IF r.kind = "text"
    THEN [ok |-> TRUE, text |-> Strip(r.text)]
    ELSE [ok |-> TRUE, text |-> ""]

\* gemini_client.generate_latex, lines 79-90: response.text.strip(), or
\* RuntimeError for whatever the remote call raised
GenerateLatex(r) ==
    IF r.kind = "text"
    THEN [ok |-> TRUE, text |-> Strip(r.text)]
    ELSE [ok |-> FALSE, text |-> "Failed to generate LaTeX code: " \o r.text]

GenerationOutcomes == {GenerateLatex(r) : r \in RemoteResponses}

\* no generate_latex call made yet
NoResponse == [kind |-> "none", text |-> "None"]

TexFile == "output/document.tex"
PdfFile == "output/document.pdf"

\* the aggregated log the n-th compile call of a generate_and_compile call builds
CompileLog(n) == "log of compilation " \o ToString(n)

\* the ways compile_latex_to_pdf(latex_code, pdf_file) ends
CompileOutcomes(n) ==
    {[kind |-> "returned", pdf_path |-> PdfFile, log |-> CompileLog(n)]}
    \cup {AllFailedError(<<CompileLog(n)>>, e) : e \in {"None", "run error"}}
    \cup {Raised("OSError", PdfFile)}

NoResult == [kind |-> "none"]

\* the error signatures _create_error_fix_context looks for
Signatures ==
    {"auto expansion is only possible with scalable fonts",
     "Undefined control sequence", "moderncv", "Emergency stop"}

\* what the engines of one compile call printed, as the signatures in it
EngineOutputs ==
    {{}, {"auto expansion is only possible with scalable fonts"},
     {"Undefined control sequence", "Emergency stop"}, {"moderncv"}}

\* the text of a log in which the engines printed the signatures of printed
LogText(n, printed) ==
    IF printed = {} THEN CompileLog(n)
    ELSE IF printed = {"moderncv"} THEN CompileLog(n) \o ": moderncv"
    ELSE IF printed = {"auto expansion is only possible with scalable fonts"}
    THEN CompileLog(n) \o ": auto expansion is only possible with scalable fonts"
    ELSE CompileLog(n) \o ": Undefined control sequence, Emergency stop"

\* needle in text, for the needles of lines 166-192 and the texts of this
\* model: exception messages hold no engine output, the logs hold what LogText
\* put there
InText(needle, text) ==
    \E n \in 1..2, printed \in EngineOutputs :
        /\ text = LogText(n, printed)
        /\ \E sig \in printed :
              needle = sig \/ (needle = "auto expansion" /\
                                sig = "auto expansion is only possible with scalable fonts")

\* the hint lines lines 166-192 add for a signature
Hints(sig) ==
    IF sig = "auto expansion is only possible with scalable fonts"
    THEN <<"- FONT EXPANSION ERROR: Remove or comment out \\usepackage{microtype} or switch to XeLaTeX/LuaLaTeX",
           "- Alternative: Use \\usepackage[activate={true,nocompatibility},final,tracking=true,kerning=true,spacing=true,factor=1100,stretch=10,shrink=10]{microtype}",
           "- Or switch to standard fonts without expansion features">>
    ELSE IF sig = "Undefined control sequence"
    THEN <<"- UNDEFINED COMMAND ERROR: Remove undefined commands or include the required packages",
           "- Check that all \\usepackage{} declarations are correct and packages exist",
           "- Avoid custom commands that are not defined">>
    ELSE IF sig = "moderncv"
    THEN <<"- MODERNCV ISSUES: Consider using standard article class instead for better compatibility",
           "- If using moderncv, avoid custom spacing commands like \\makecvfootertopskip",
           "- Use only standard moderncv commands and styles">>
    ELSE <<"- CRITICAL ERROR: Check for missing \\begin{document}, unmatched braces, or syntax errors",
           "- Ensure document structure is complete and valid">>

\* lines 194-202
GeneralHints ==
    <<"\nGeneral fixes:",
      "- Use standard document classes (article, report, book) for maximum compatibility",
      "- Include proper encoding: \\usepackage[T1]{fontenc} and \\usepackage[utf8]{inputenc}",
      "- Use widely supported packages: geometry, xcolor, hyperref, enumitem",
      "- Avoid specialized packages that might not be available",
      "- Generate clean, simple LaTeX code that works across different engines">>

\* the test of lines 166, 173, 180 and 187 for one signature
Detected(sig, error, log) ==
    \/ InText(sig, error)
    \/ /\ log # "None"
       /\ InText(IF sig = "auto expansion is only possible with scalable fonts"
                 THEN "auto expansion" ELSE sig, log)

\* the hints of the signatures found, or nothing
HintsIfDetected(sig, error, log) ==
    IF Detected(sig, error, log) THEN Hints(sig) ELSE <<>>

\* _create_error_fix_context (lines 153-204), as the lines it joins
CreateErrorFixContext(error, log) ==
    <<"\nPlease fix the following LaTeX compilation issues:">>
    \o HintsIfDetected("auto expansion is only possible with scalable fonts", error, log)
    \o HintsIfDetected("Undefined control sequence", error, log)
    \o HintsIfDetected("moderncv", error, log)
    \o HintsIfDetected("Emergency stop", error, log)
    \o GeneralHints

\* a returned result dictionary
Dict(ok, error, code, tex, pdf, log) ==
    [kind |-> "returned", success |-> ok, error |-> error, latex_code |-> code,
     tex_file |-> tex, pdf_file |-> pdf, compilation_log |-> log]

\* a failure dictionary that drops the markup
FailureDict_noMarkup(error, code, save, log) ==
    Dict(FALSE, error, "None", IF save THEN TexFile ELSE "None", "None", log)

\* a failure dictionary that still names a PDF
FailureDict_namesPdf(error, code, save, log) ==
    Dict(FALSE, error, code, IF save THEN TexFile ELSE "None", PdfFile, log)

\* the failure dictionaries of lines 107-114 and 133-140
FailureDict(error, code, save, log) ==
    Dict(FALSE, error, code, IF save THEN TexFile ELSE "None", "None", log)

\* line 89: self.latex_compiler = LaTeXCompiler("xelatex")
EngineAfterSwitch(before) == "xelatex"

\* a slip that names the file the call never wrote
GenerationFailure_namesTexFile(message) ==
    Dict(FALSE, "LaTeX generation failed: " \o message, "None", TexFile, "None", "None")

\* lines 63-71: the dictionary returned when the first generation raises
GenerationFailure(message) ==
    Dict(FALSE, "LaTeX generation failed: " \o message, "None", "None", "None", "None")

\* a loop that allows one attempt more
MaxAttempts_three(retry) == IF retry THEN 3 ELSE 2

\* line 94
MaxAttempts(retry) == IF retry THEN 2 ELSE 1

\* GeminiLaTeXProcessor.__init__: a processor configured with an engine
NewProcessor(engine) ==
    /\ gpc = "idle"
    /\ latex_compiler' = engine
    /\ engine_at_call' = engine
    /\ response' = NoResponse
    /\ enhanced_context' = <<>>
    /\ result' = NoResult
    /\ latex_code' = "None"
    /\ compilation_attempt' = 0
    /\ log_local' = "unbound"
    /\ error_msg' = "None"
    /\ generation_calls' = 0
    /\ compilations' = <<>>
    /\ tex_writes' = <<>>
    /\ UNCHANGED <<gpc, save_tex, retry_on_error, tex_on_disk>>
    /\ UNCHANGED <<storeVars, compVars, loopVars, auxVars>>

\* the call begins
GenerateAndCompile(save, retry) ==
    /\ gpc = "idle"
    /\ gpc' = "generate"
    /\ save_tex' = save
    /\ retry_on_error' = retry
    /\ latex_code' = "None"
    /\ compilation_attempt' = 0
    /\ log_local' = "unbound"
    /\ error_msg' = "None"
    /\ result' = NoResult
    /\ engine_at_call' = latex_compiler
    /\ response' = NoResponse
    /\ enhanced_context' = <<>>
    /\ generation_calls' = 0
    /\ compilations' = <<>>
    /\ tex_writes' = <<>>
    /\ UNCHANGED <<latex_compiler, tex_on_disk>>
    /\ UNCHANGED <<storeVars, compVars, loopVars, auxVars>>

\* lines 61-85 and 92-94: the first generation, the write of tex_file, and the
\* test for the template marker
Generate(r) ==
    LET o == GenerateLatex(r) IN
    /\ gpc = "generate"
    /\ generation_calls' = generation_calls + 1
    /\ response' = r
    /\ IF ~o.ok
       THEN /\ result' = GenerationFailure(o.text)
            /\ gpc' = "idle"
            /\ UNCHANGED <<latex_code, compilation_attempt, tex_on_disk, tex_writes>>
       ELSE /\ latex_code' = o.text
            /\ IF save_tex
               THEN tex_on_disk' = o.text /\ tex_writes' = Append(tex_writes, o.text)
               ELSE UNCHANGED <<tex_on_disk, tex_writes>>
            /\ compilation_attempt' = 1
            /\ gpc' = IF /\ Contains("\\documentclass", o.text)
                         /\ Contains("altacv", o.text)
                         /\ latex_compiler # "xelatex"
                      THEN "switch" ELSE "compile"
            /\ UNCHANGED result
    /\ UNCHANGED <<latex_compiler, save_tex, retry_on_error, log_local, error_msg,
                   engine_at_call, compilations, enhanced_context>>
    /\ UNCHANGED <<storeVars, compVars, loopVars, auxVars>>

\* lines 86-90: LaTeXCompiler("xelatex") is constructed, whose __init__ runs
\* validate_latex_installation (latex_compiler.py 16-50) and raises RuntimeError
\* when xelatex does not answer; no try block encloses the statement
SwitchEngine(valid) ==
    /\ gpc = "switch"
    /\ IF valid
       THEN /\ latex_compiler' = EngineAfterSwitch(latex_compiler)
            /\ gpc' = "compile"
            /\ UNCHANGED result
       ELSE /\ result' = Raised("RuntimeError", "LaTeX engine 'xelatex' not found")
            /\ gpc' = "idle"
            /\ UNCHANGED latex_compiler
    /\ UNCHANGED <<save_tex, retry_on_error, latex_code, compilation_attempt, log_local,
                   error_msg, tex_on_disk, engine_at_call, generation_calls,
                   compilations, tex_writes, response, enhanced_context>>
    /\ UNCHANGED <<storeVars, compVars, loopVars, auxVars>>

\* lines 96-114 and 144-151: one compile_latex_to_pdf call; its return ends the
\* loop and the call, its exception ends the call when no attempt is left
Compile(o, printed) ==
    /\ gpc = "compile"
    /\ compilations' = Append(compilations,
                              [engine |-> latex_compiler, latex_code |-> latex_code,
                               printed |-> printed])
    /\ IF o.kind = "returned"
       THEN /\ log_local' = o.log
            /\ result' = Dict(TRUE, "None", latex_code,
                              IF save_tex THEN TexFile ELSE "None", o.pdf_path, o.log)
            /\ gpc' = "idle"
            /\ UNCHANGED error_msg
       ELSE /\ error_msg' = o.message
            /\ UNCHANGED log_local
            /\ IF compilation_attempt >= MaxAttempts(retry_on_error) \/ ~retry_on_error
               THEN /\ result' = FailureDict("LaTeX compilation failed: " \o o.message,
                                             latex_code, save_tex,
                                             IF log_local # "unbound" THEN log_local
                                             ELSE "None")
                    /\ gpc' = "idle"
               ELSE /\ gpc' = "regenerate"
                    /\ UNCHANGED result
    /\ UNCHANGED <<latex_compiler, save_tex, retry_on_error, latex_code,
                   compilation_attempt, tex_on_disk, engine_at_call, generation_calls,
                   tex_writes, response, enhanced_context>>
    /\ UNCHANGED <<storeVars, compVars, loopVars, auxVars>>

\* lines 116-142: the regeneration with the error context (the caller's own
\* context, when given, is put in front of it), the write of tex_file, and
\* compilation_attempt += 1
Regenerate(r) ==
    LET o == GenerateLatex(r) IN
    /\ gpc = "regenerate"
    /\ generation_calls' = generation_calls + 1
    /\ response' = r
    /\ enhanced_context' =
           CreateErrorFixContext(error_msg,
                                 IF log_local # "unbound" THEN log_local ELSE "None")
    /\ IF o.ok
       THEN /\ latex_code' = o.text
            /\ IF save_tex
               THEN tex_on_disk' = o.text /\ tex_writes' = Append(tex_writes, o.text)
               ELSE UNCHANGED <<tex_on_disk, tex_writes>>
            /\ compilation_attempt' = compilation_attempt + 1
            /\ gpc' = "compile"
            /\ UNCHANGED result
       ELSE /\ result' = FailureDict("LaTeX regeneration failed: " \o o.text,
                                     latex_code, save_tex, "None")
            /\ gpc' = "idle"
            /\ UNCHANGED <<latex_code, compilation_attempt, tex_on_disk, tex_writes>>
    /\ UNCHANGED <<latex_compiler, save_tex, retry_on_error, log_local, error_msg,
                   engine_at_call, compilations>>
    /\ UNCHANGED <<storeVars, compVars, loopVars, auxVars>>

\* ---------------------------------------------------------------------------
\* GeminiLaTeXProcessor.generate_with_custom_options (main.py lines 245-316):
\* one generate_latex_with_options call, which is one generate_latex call with
\* the options as context (gemini_client.py 92-117), the write of tex_file, and
\* one compile_latex_to_pdf call.

\* a failure dictionary without the markup that was compiled
CustomCompileFailure_noMarkup(message, code, save) ==
    FailureDict_noMarkup("LaTeX compilation failed: " \o message, code, save, "None")

\* lines 299-306: the dictionary returned when the compilation raises; the
\* local compilation_log is unbound then
CustomCompileFailure(message, code, save) ==
    FailureDict("LaTeX compilation failed: " \o message, code, save, "None")

\* the call begins
GenerateWithCustomOptions(save) ==
    /\ gpc = "idle"
    /\ gpc' = "custom_generate"
    /\ save_tex' = save
    /\ latex_code' = "None"
    /\ compilation_attempt' = 0
    /\ log_local' = "unbound"
    /\ error_msg' = "None"
    /\ result' = NoResult
    /\ engine_at_call' = latex_compiler
    /\ response' = NoResponse
    /\ enhanced_context' = <<>>
    /\ generation_calls' = 0
    /\ compilations' = <<>>
    /\ tex_writes' = <<>>
    /\ UNCHANGED <<latex_compiler, retry_on_error, tex_on_disk>>
    /\ UNCHANGED <<storeVars, compVars, loopVars, auxVars>>

\* lines 271-293: the generation and the write of tex_file
CustomGenerate(r) ==
    LET o == GenerateLatex(r) IN
    /\ gpc = "custom_generate"
    /\ generation_calls' = generation_calls + 1
    /\ response' = r
    /\ IF ~o.ok
       THEN /\ result' = GenerationFailure(o.text)
            /\ gpc' = "idle"
            /\ UNCHANGED <<latex_code, tex_on_disk, tex_writes>>
       ELSE /\ latex_code' = o.text
            /\ IF save_tex
               THEN tex_on_disk' = o.text /\ tex_writes' = Append(tex_writes, o.text)
               ELSE UNCHANGED <<tex_on_disk, tex_writes>>
            /\ gpc' = "custom_compile"
            /\ UNCHANGED result
    /\ UNCHANGED <<latex_compiler, save_tex, retry_on_error, compilation_attempt,
                   log_local, error_msg, engine_at_call, compilations, enhanced_context>>
    /\ UNCHANGED <<storeVars, compVars, loopVars, auxVars>>

\* lines 295-316: the one compile_latex_to_pdf call and the return
CustomCompile(o, printed) ==
    /\ gpc = "custom_compile"
    /\ compilations' = Append(compilations,
                              [engine |-> latex_compiler, latex_code |-> latex_code,
                               printed |-> printed])
    /\ IF o.kind = "returned"
       THEN /\ log_local' = o.log
            /\ result' = Dict(TRUE, "None", latex_code,
                              IF save_tex THEN TexFile ELSE "None", o.pdf_path, o.log)
       ELSE /\ result' = CustomCompileFailure(o.message, latex_code, save_tex)
            /\ UNCHANGED log_local
    /\ gpc' = "idle"
    /\ UNCHANGED <<latex_compiler, save_tex, retry_on_error, latex_code,
                   compilation_attempt, error_msg, tex_on_disk, engine_at_call,
                   generation_calls, tex_writes, response, enhanced_context>>
    /\ UNCHANGED <<storeVars, compVars, loopVars, auxVars>>

\* ---------------------------------------------------------------------------
\* InteractiveSession (interactive_session.py).  Each prompt of PDFViewer is
\* answered by a line of input or by an interrupt (Ctrl-C); the calls into
\* DocumentEditor are the store actions above, and compile_current_version
\* either returns a PDF or a failure dictionary.

NoStep ==
    [from |-> "none", input |-> "none", wrote |-> FALSE, compiled |-> "none",
     shown |-> "none"]

\* a loop that reports every pass as a success
Shown_alwaysSuccess(ok) == "success"

\* lines 190-197 and 206-212: show_success_message or show_error_message
Shown(ok) == IF ok THEN "success" ELSE "error"

\* session_path/v{current_version}.pdf (document_editor.py line 197)
VersionPdf(session_id, version) == session_id \o "/v" \o ToString(version) \o ".pdf"

\* the dictionaries the interactive calls return
LoopFailure(error, session_id) ==
    [kind |-> "returned", success |-> FALSE, error |-> error, session_id |-> session_id]

\* _finalize_session
Finalized(session_id, version, pdf) ==
    [kind |-> "returned", success |-> TRUE, session_id |-> session_id,
     final_version |-> version, final_pdf |-> pdf]

\* the version numbers get_version_choice accepts
ValidVersions(session_id) ==
    IF session_id \in DOMAIN sessionJson
    THEN {sessionJson[session_id].versions[i].version :
             i \in DOMAIN sessionJson[session_id].versions}
    ELSE {}

\* what start_interactive_editing and resume_session did before the loop: the
\* call made, the markup generate_and_compile returned ("None" if none),
\* whether a session was created, and how the compilation of the current
\* version went
Entry(call, markup, created, compiled) ==
    [from |-> "idle", input |-> call, wrote |-> created, compiled |-> compiled,
     shown |-> "none", generated |-> markup]

\* initial_result["latex_code"] of a successful generate_and_compile
StartMarkups == InitialMarkups \cup {"\\documentclass{article}cv\\end{document}"}

\* how generate_and_compile can end for its caller: a success dictionary, a
\* failure dictionary, or the exception of main.py line 89
GenerateAndCompileEnds == {"success", "failure", "raised"}

\* start_interactive_editing: generate_and_compile, create_editing_session,
\* compile_current_version, then the loop
StartInteractiveEditing(generated, code, document_name, prompt, compile_ok) ==
    /\ lpc = "idle"
    /\ step' = Entry("start", IF generated = "success" THEN code ELSE "None",
                     generated = "success",
                     IF generated # "success" THEN "none"
                     ELSE IF compile_ok THEN "ok" ELSE "failed")
    /\ IF generated = "raised"
       THEN /\ loop_result' = [kind |-> "raised", error |-> "RuntimeError"]
            /\ UNCHANGED <<lpc, loop_session, current_version, current_pdf_path>>
            /\ UNCHANGED <<storeVars, compVars>>
       ELSE IF generated = "failure"
       THEN /\ loop_result' = LoopFailure("Failed to generate initial document", "None")
            /\ UNCHANGED <<lpc, loop_session, current_version, current_pdf_path>>
            /\ UNCHANGED <<storeVars, compVars>>
       ELSE /\ CreateEditingSession(code, document_name, prompt)
            /\ loop_session' = SessionId(document_name, now)
            /\ IF compile_ok
               THEN /\ lpc' = "Reviewing"
                    /\ current_version' = 1
                    /\ current_pdf_path' = VersionPdf(SessionId(document_name, now), 1)
                    /\ loop_result' = [kind |-> "none"]
               ELSE /\ loop_result' = LoopFailure("Failed to compile initial version",
                                                  SessionId(document_name, now))
                    /\ UNCHANGED <<lpc, current_version, current_pdf_path>>
    /\ UNCHANGED <<orchVars, auxVars>>

\* resume_session
ResumeSession(session_id, compile_ok) ==
    /\ lpc = "idle"
    /\ step' = Entry("resume", "None", FALSE,
                     IF session_id \notin DOMAIN sessionJson THEN "none"
                     ELSE IF compile_ok THEN "ok" ELSE "failed")
    /\ loop_session' = session_id
    /\ IF session_id \notin DOMAIN sessionJson
       THEN /\ loop_result' = LoopFailure("Session " \o session_id \o " not found", session_id)
            /\ UNCHANGED <<lpc, current_version, current_pdf_path>>
       ELSE IF ~compile_ok
       THEN /\ loop_result' = LoopFailure("Failed to compile current version", session_id)
            /\ UNCHANGED <<lpc, current_version, current_pdf_path>>
       ELSE /\ lpc' = "Reviewing"
            /\ current_version' = sessionJson[session_id].current_version
            /\ current_pdf_path' =
                    VersionPdf(session_id, sessionJson[session_id].current_version)
            /\ loop_result' = [kind |-> "none"]
    /\ UNCHANGED <<storeVars, compVars, orchVars, auxVars>>

\* lines 166-172: choice 6, or an interrupt at the menu or at the prompts of
\* _get_modification_request
Cancel ==
    /\ lpc = "Reviewing"
    /\ lpc' = "idle"
    /\ loop_result' = LoopFailure("Session cancelled by user", loop_session)
    /\ step' = [from |-> "Reviewing", input |-> "cancel", wrote |-> FALSE,
                compiled |-> "none", shown |-> "none"]
    /\ UNCHANGED <<loop_session, current_version, current_pdf_path>>
    /\ UNCHANGED <<storeVars, compVars, orchVars, auxVars>>

\* line 174: choice 2; confirm_satisfaction prompts next
Satisfied ==
    /\ lpc = "Reviewing"
    /\ lpc' = "ConfirmingSatisfaction"
    /\ step' = [from |-> "Reviewing", input |-> "satisfied", wrote |-> FALSE,
                compiled |-> "none", shown |-> "none"]
    /\ UNCHANGED <<loop_session, current_version, current_pdf_path, loop_result>>
    /\ UNCHANGED <<storeVars, compVars, orchVars, auxVars>>

\* lines 175-181 with confirm_satisfaction (pdf_viewer.py 274-300): yes ends
\* the session, no and an interrupt return False
Confirm(answer) ==
    /\ lpc = "ConfirmingSatisfaction"
    /\ step' = [from |-> "ConfirmingSatisfaction", input |-> answer, wrote |-> FALSE,
                compiled |-> "none", shown |-> "none"]
    /\ IF answer = "yes"
       THEN /\ lpc' = "idle"
            /\ loop_result' = Finalized(loop_session, current_version, current_pdf_path)
       ELSE /\ lpc' = "Reviewing"
            /\ UNCHANGED loop_result
    /\ UNCHANGED <<loop_session, current_version, current_pdf_path>>
    /\ UNCHANGED <<storeVars, compVars, orchVars, auxVars>>

\* lines 183-186: choice 5
SaveExit ==
    /\ lpc = "Reviewing"
    /\ lpc' = "idle"
    /\ loop_result' = Finalized(loop_session, current_version, current_pdf_path)
    /\ step' = [from |-> "Reviewing", input |-> "save_exit", wrote |-> FALSE,
                compiled |-> "none", shown |-> "none"]
    /\ UNCHANGED <<loop_session, current_version, current_pdf_path>>
    /\ UNCHANGED <<storeVars, compVars, orchVars, auxVars>>

\* lines 188-197 with _handle_modification (214-254): choice 1 and a request
Modify(request, generation_ok, generated, compile_ok) ==
    /\ lpc = "Reviewing"
    /\ ApplyModification(loop_session, request, generation_ok, generated)
    /\ step' = [from |-> "Modifying", input |-> request,
                wrote |-> sessionJson' # sessionJson,
                compiled |-> IF lastCall'.raised # "" \/ ~lastCall'.result.success
                             THEN "none"
                             ELSE IF compile_ok THEN "ok" ELSE "failed",
                shown |-> IF lastCall'.raised # "" THEN "none"
                          ELSE Shown(lastCall'.result.success /\ compile_ok)]
    /\ IF lastCall'.raised # ""
       THEN /\ lpc' = "idle"
            /\ loop_result' = [kind |-> "raised", error |-> lastCall'.raised]
            /\ UNCHANGED <<current_version, current_pdf_path>>
       ELSE /\ lpc' = "Reviewing"
            /\ UNCHANGED loop_result
            /\ IF lastCall'.result.success /\ compile_ok
               THEN /\ current_version' = sessionJson'[loop_session].current_version
                    /\ current_pdf_path' =
                           VersionPdf(loop_session, sessionJson'[loop_session].current_version)
               ELSE UNCHANGED <<current_version, current_pdf_path>>
    /\ UNCHANGED loop_session
    /\ UNCHANGED <<orchVars, auxVars>>

\* line 199: choice 3; _show_version_history displays and waits for Enter
ViewHistory ==
    /\ lpc = "Reviewing"
    /\ lpc' = "ViewingHistory"
    /\ step' = [from |-> "Reviewing", input |-> "view_history", wrote |-> FALSE,
                compiled |-> "none", shown |-> "none"]
    /\ UNCHANGED <<loop_session, current_version, current_pdf_path, loop_result>>
    /\ UNCHANGED <<storeVars, compVars, orchVars, auxVars>>

\* line 318: input("Press Enter to continue...") with no try block around it,
\* in _show_version_history or in its caller
Acknowledge(key) ==
    /\ lpc = "ViewingHistory"
    /\ step' = [from |-> "ViewingHistory", input |-> key, wrote |-> FALSE,
                compiled |-> "none", shown |-> "none"]
    /\ IF key = "enter"
       THEN /\ lpc' = "Reviewing"
            /\ UNCHANGED loop_result
       ELSE /\ lpc' = "idle"
            /\ loop_result' = [kind |-> "raised", error |-> "KeyboardInterrupt"]
    /\ UNCHANGED <<loop_session, current_version, current_pdf_path>>
    /\ UNCHANGED <<storeVars, compVars, orchVars, auxVars>>

\* line 204: choice 4; _handle_revert shows the history and asks for a version
Revert4 ==
    /\ lpc = "Reviewing"
    /\ lpc' = "Reverting"
    /\ step' = [from |-> "Reviewing", input |-> "revert", wrote |-> FALSE,
                compiled |-> "none", shown |-> "none"]
    /\ UNCHANGED <<loop_session, current_version, current_pdf_path, loop_result>>
    /\ UNCHANGED <<storeVars, compVars, orchVars, auxVars>>

\* _handle_revert (256-305) from get_version_choice on: choice 0 stands for
\* None ('cancel', or an interrupt), any other for a confirmed version number
ChooseVersion(choice, compile_ok) ==
    /\ lpc = "Reverting"
    /\ lpc' = "Reviewing"
    /\ IF choice = 0
       THEN /\ step' = [from |-> "Reverting", input |-> "cancel", wrote |-> FALSE,
                        compiled |-> "none", shown |-> Shown(FALSE)]
            /\ UNCHANGED <<current_version, current_pdf_path>>
            /\ UNCHANGED <<storeVars, compVars>>
       ELSE /\ RevertToVersion(loop_session, choice)
            /\ step' = [from |-> "Reverting", input |-> ToString(choice),
                        wrote |-> sessionJson' # sessionJson,
                        compiled |-> IF ~lastCall'.result.success THEN "none"
                                     ELSE IF compile_ok THEN "ok" ELSE "failed",
                        shown |-> Shown(lastCall'.result.success /\ compile_ok)]
            /\ IF lastCall'.result.success /\ compile_ok
               THEN /\ current_version' = sessionJson'[loop_session].current_version
                    /\ current_pdf_path' =
                           VersionPdf(loop_session, sessionJson'[loop_session].current_version)
               ELSE UNCHANGED <<current_version, current_pdf_path>>
    /\ UNCHANGED <<loop_session, loop_result>>
    /\ UNCHANGED <<orchVars, auxVars>>

\* ---------------------------------------------------------------------------
\* DocumentEditor.list_sessions (document_editor.py lines 342-373).  A session
\* file can become unreadable behind the editor's back (a write cut short, an
\* edit by hand); json.load or one of the key lookups then raises inside the
\* try block of lines 359-371.  os.listdir gives the folders in an order the
\* code does not choose, so the returned list is taken as the set of its entries.

\* a summary that carries the time of the call
Summary_stamped(session_data) ==
    [session_id |-> session_data.session_id,
     document_name |-> session_data.document_name,
     created_at |-> now,
     current_version |-> session_data.current_version,
     total_versions |-> Len(session_data.versions)]

\* lines 363-369
Summary(session_data) ==
    [session_id |-> session_data.session_id,
     document_name |-> session_data.document_name,
     created_at |-> session_data.created_at,
     current_version |-> session_data.current_version,
     total_versions |-> Len(session_data.versions)]

\* a listing that gives up at the first file it cannot read
Sessions_abortOnBad(store, bad) ==
    IF bad = {} THEN {Summary(store[id]) : id \in DOMAIN store} ELSE {}

\* lines 354-373: the folders whose session.json loads contribute a summary,
\* the others are skipped by the except branch
Sessions(store, bad) == {Summary(store[id]) : id \in DOMAIN store \ bad}

\* the environment damages a session file
CorruptSession(session_id) ==
    /\ session_id \in DOMAIN sessionJson
    /\ session_id \notin corrupt
    /\ corrupt' = corrupt \cup {session_id}
    /\ lastCall' = NoCall
    /\ listed' = <<>>
    /\ UNCHANGED <<now, sessionJson, texFiles, writes, appended>>
    /\ UNCHANGED <<compVars, orchVars, loopVars, procVars>>

\* list_sessions()
ListSessions ==
    /\ lastCall' = [op |-> "list", before |-> sessionJson, before_tex |-> texFiles,
                    before_corrupt |-> corrupt, raised |-> "",
                    returned |-> Sessions(sessionJson, corrupt)]
    /\ listed' = (IF listed = <<>> THEN <<>> ELSE <<Last(listed)>>)
                  \o <<[writes |-> writes, corrupt |-> corrupt,
                        returned |-> Sessions(sessionJson, corrupt)]>>
    /\ UNCHANGED <<now, sessionJson, texFiles, writes, appended, corrupt>>
    /\ UNCHANGED <<compVars, orchVars, loopVars, procVars>>

\* ---------------------------------------------------------------------------
\* Two callers of apply_modification, revert_to_version and
\* compile_current_version on one DocumentEditor (one session directory tree),
\* each call advancing by one file read or file write at a time:
\* load_session, then generation or the search for the target version, then the
\* write of session.json, then the write of v{n}.tex; for the compile, the
\* load and then the write of v{n}.pdf.

Callers == {1, 2}

IdleCaller ==
    [pc |-> "idle", op |-> "none", session_id |-> "None", request |-> "None",
     version_number |-> 0, session_data |-> <<>>, new_code |-> "None"]

\* caller p is at position at
At(p, at) == callers[p].pc = at

\* the call of caller p ends, and its locals with it
Return(p) ==
    callers' = [callers EXCEPT ![p] = IdleCaller]

\* a call is made
CallerBegin(p, op, session_id, version_number) ==
    /\ At(p, "idle")
    /\ calls < MaxCalls
    /\ calls' = calls + 1
    /\ callers' = [callers EXCEPT ![p] =
                      [IdleCaller EXCEPT !.pc = "load", !.op = op,
                                         !.session_id = session_id,
                                         !.request = "make it shorter",
                                         !.version_number = version_number]]
    /\ acted' = session_id
    /\ UNCHANGED <<storeVars, compVars, orchVars, loopVars, listVars, pdfFiles>>

\* load_session (lines 88-105), and for revert_to_version the search of lines
\* 254-265 and the new version of lines 267-278, all on the caller's own copy
CallerLoad(p) ==
    LET c == callers[p]
        session_data == sessionJson[c.session_id]
        found == FindVersion(session_data.versions, c.version_number)
    IN  /\ At(p, "load")
        /\ acted' = c.session_id
        /\ IF c.session_id \notin DOMAIN sessionJson
           THEN Return(p)
           ELSE IF c.op = "apply"
           THEN callers' = [callers EXCEPT ![p].pc = "generate",
                                           ![p].session_data = session_data]
           ELSE IF c.op = "compile"
           THEN callers' = [callers EXCEPT ![p].pc = "compile",
                                           ![p].session_data = session_data]
           ELSE IF found = 0
           THEN Return(p)
           ELSE callers' = [callers EXCEPT
                    ![p].pc = "save_session",
                    ![p].new_code = session_data.versions[found].latex_code,
                    ![p].session_data =
                        AppendVersion(session_data,
                            NewVersionData(NextVersionNumber(session_data),
                                           session_data.versions[found].latex_code,
                                           RevertDescription(c.version_number), now))]
        /\ UNCHANGED <<storeVars, compVars, orchVars, loopVars, listVars, pdfFiles, calls>>

\* apply_modification lines 136-155: generate_latex, then the new version
\* appended to the caller's copy
CallerGenerate(p, generation_ok, generated) ==
    LET c == callers[p]
    IN  /\ At(p, "generate")
        /\ acted' = c.session_id
        /\ IF generation_ok
           THEN callers' = [callers EXCEPT
                    ![p].pc = "save_session",
                    ![p].new_code = generated,
                    ![p].session_data =
                        AppendVersion(c.session_data,
                            NewVersionData(NextVersionNumber(c.session_data), generated,
                                           c.request, now))]
           ELSE Return(p)
        /\ UNCHANGED <<storeVars, compVars, orchVars, loopVars, listVars, pdfFiles, calls>>

\* a save that appends the caller's new version to the record as it is on
\* disk now, instead of writing the caller's copy
CallerSaveSession_appendToStored(p) ==
    LET c == callers[p]
    IN  /\ At(p, "save_session")
        /\ writes < MaxWrites
        /\ writes' = writes + 1
        /\ acted' = c.session_id
        /\ sessionJson' = WriteFile(sessionJson, c.session_id,
                                    AppendVersion(sessionJson[c.session_id],
                                                  Last(c.session_data.versions)))
        /\ callers' = [callers EXCEPT ![p].pc = "save_tex"]
        /\ UNCHANGED <<now, texFiles, lastCall, appended>>
        /\ UNCHANGED <<compVars, orchVars, loopVars, listVars, pdfFiles, calls>>

\* lines 157-160 and 280-283: json.dump of the caller's copy to session.json
CallerSaveSession(p) ==
    LET c == callers[p]
    IN  /\ At(p, "save_session")
        /\ writes < MaxWrites
        /\ writes' = writes + 1
        /\ acted' = c.session_id
        /\ sessionJson' = WriteFile(sessionJson, c.session_id, c.session_data)
        /\ callers' = [callers EXCEPT ![p].pc = "save_tex"]
        /\ UNCHANGED <<now, texFiles, lastCall, appended>>
        /\ UNCHANGED <<compVars, orchVars, loopVars, listVars, pdfFiles, calls>>

\* lines 162-164 and 285-287: the write of v{new_version}.tex, and the return
CallerSaveTex(p) ==
    LET c == callers[p]
    IN  /\ At(p, "save_tex")
        /\ acted' = c.session_id
        /\ texFiles' = WriteFile(texFiles,
                                 TexPath(c.session_id, c.session_data.current_version),
                                 c.new_code)
        /\ Return(p)
        /\ UNCHANGED <<now, sessionJson, lastCall, writes, appended>>
        /\ UNCHANGED <<compVars, orchVars, loopVars, listVars, pdfFiles, calls>>

\* compile_current_version lines 195-219: the newest markup of the copy is
\* compiled to session_path/v{current_version}.pdf, or the compile fails
CallerCompile(p, compile_ok) ==
    LET c == callers[p]
    IN  /\ At(p, "compile")
        /\ acted' = c.session_id
        /\ IF compile_ok
           THEN /\ pdfFiles' = pdfFiles \cup
                                   {VersionPdf(c.session_id, c.session_data.current_version)}
                /\ Return(p)
           ELSE /\ UNCHANGED pdfFiles
                /\ Return(p)
        /\ UNCHANGED <<storeVars, compVars, orchVars, loopVars, listVars, calls>>

vars == <<storeVars, compVars, orchVars, loopVars, listVars, procVars>>

Init ==
    /\ now = 0
    /\ sessionJson = <<>>
    /\ texFiles = <<>>
    /\ lastCall = NoCall
    /\ writes = 0
    /\ appended = <<>>
    /\ latex_engine = "pdflatex"
    /\ pc = "idle"
    /\ output_path = "None"
    /\ working_dir = "None"
    /\ cleanup_temp = FALSE
    /\ files = [p \in Paths |-> "absent"]
    /\ engines_to_try = <<>>
    /\ candidate = 0
    /\ run_number = 0
    /\ success = TRUE
    /\ compilation_log = <<>>
    /\ last_error = "None"
    /\ left = {}
    /\ processes = <<>>
    /\ outcome = NoOutcome
    /\ latex_compiler = "pdflatex"
    /\ gpc = "idle"
    /\ save_tex = TRUE
    /\ retry_on_error = TRUE
    /\ latex_code = "None"
    /\ compilation_attempt = 0
    /\ log_local = "unbound"
    /\ error_msg = "None"
    /\ tex_on_disk = "absent"
    /\ result = NoResult
    /\ engine_at_call = "pdflatex"
    /\ response = NoResponse
    /\ enhanced_context = <<>>
    /\ generation_calls = 0
    /\ compilations = <<>>
    /\ tex_writes = <<>>
    /\ lpc = "idle"
    /\ loop_session = "None"
    /\ current_version = 0
    /\ current_pdf_path = "None"
    /\ loop_result = [kind |-> "none"]
    /\ step = NoStep
    /\ corrupt = {}
    /\ listed = <<>>
    /\ callers = [p \in Callers |-> IdleCaller]
    /\ pdfFiles = {}
    /\ acted = "None"
    /\ calls = 0

Create == \E c \in InitialMarkups, n \in DocNames, p \in Prompts :
              CreateEditingSession(c, n, p) /\ UNCHANGED <<orchVars, loopVars, auxVars>>
Apply == \E s \in CallIds, r \in Requests, ok \in BOOLEAN, g \in GeneratedTexts :
             ApplyModification(s, r, ok, g) /\ UNCHANGED <<orchVars, loopVars, auxVars>>
Revert == \E s \in CallIds : \E k \in RevertTargets(s) :
              RevertToVersion(s, k) /\ UNCHANGED <<orchVars, loopVars, auxVars>>
Clock == Tick /\ UNCHANGED <<orchVars, loopVars, auxVars>>

Next == Create \/ Apply \/ Revert \/ Clock

Spec == Init /\ [][Next]_vars

Start == \E e \in ConfiguredEngines, o \in OutputPaths, d \in WorkingDirs :
             CompileStart(e, o, d) /\ UNCHANGED <<orchVars, loopVars, auxVars>>
WriteTexFile == \E ok \in BOOLEAN : WriteTex(ok) /\ UNCHANGED <<orchVars, loopVars, auxVars>>
ProbeEngine == \E o \in ProbeOutcomes : Probe(o) /\ UNCHANGED <<orchVars, loopVars, auxVars>>
RunEngine == \E o \in RunOutcomes : Run(o) /\ UNCHANGED <<orchVars, loopVars, auxVars>>
CheckArtifact == CheckPdf /\ UNCHANGED <<orchVars, loopVars, auxVars>>
GiveUp == AllFailed /\ UNCHANGED <<orchVars, loopVars, auxVars>>
CopyAndReturn == \E ok \in BOOLEAN : Finish(ok) /\ UNCHANGED <<orchVars, loopVars, auxVars>>

NextCompile ==
    Start \/ WriteTexFile \/ ProbeEngine \/ RunEngine \/ CheckArtifact \/ GiveUp
    \/ CopyAndReturn

SpecCompile == Init /\ [][NextCompile]_vars

Configure == \E e \in ConfiguredEngines : NewProcessor(e)
Call == \E save \in BOOLEAN, retry \in BOOLEAN : GenerateAndCompile(save, retry)
FirstGeneration == \E r \in RemoteResponses : Generate(r)
ForceXelatex == \E valid \in BOOLEAN : SwitchEngine(valid)
CompileAttempt ==
    \E o \in CompileOutcomes(compilation_attempt) :
        \E printed \in (IF o.kind = "raised" THEN EngineOutputs ELSE {{}}) :
            Compile(o, printed)
Regeneration == \E r \in RemoteResponses : Regenerate(r)

NextOrch ==
    Configure \/ Call \/ FirstGeneration \/ ForceXelatex \/ CompileAttempt
    \/ Regeneration

SpecOrch == Init /\ [][NextOrch]_vars

CustomCall == \E save \in BOOLEAN : GenerateWithCustomOptions(save)
CustomGeneration == \E r \in RemoteResponses : CustomGenerate(r)
CustomCompilation ==
    \E o \in CompileOutcomes(1) :
        \E printed \in (IF o.kind = "raised" THEN EngineOutputs ELSE {{}}) :
            CustomCompile(o, printed)

NextCustom == Configure \/ CustomCall \/ CustomGeneration \/ CustomCompilation

SpecCustom == Init /\ [][NextCustom]_vars

StartEditing ==
    \E g \in GenerateAndCompileEnds, c \in InitialMarkups, n \in DocNames, p \in Prompts,
       compile_ok \in BOOLEAN : StartInteractiveEditing(g, c, n, p, compile_ok)
Resume == \E s \in CallIds, compile_ok \in BOOLEAN : ResumeSession(s, compile_ok)
ConfirmSatisfaction == \E a \in {"yes", "no", "interrupt"} : Confirm(a)
RequestChange ==
    \E r \in Requests, ok \in BOOLEAN, g \in GeneratedTexts, compile_ok \in BOOLEAN :
        Modify(r, ok, g, compile_ok)
AcknowledgeHistory == \E k \in {"enter", "interrupt"} : Acknowledge(k)
PickVersion ==
    \E k \in {0} \cup ValidVersions(loop_session), compile_ok \in BOOLEAN :
        ChooseVersion(k, compile_ok)

NextLoop ==
    StartEditing \/ Resume \/ Cancel \/ Satisfied \/ ConfirmSatisfaction \/ SaveExit
    \/ RequestChange \/ ViewHistory \/ AcknowledgeHistory \/ Revert4 \/ PickVersion

SpecLoop == Init /\ [][NextLoop]_vars

\* sessions started with different markup and left at once, as time passes
StartSession ==
    \E g \in GenerateAndCompileEnds, c \in StartMarkups, n \in DocNames, p \in Prompts,
       compile_ok \in BOOLEAN : StartInteractiveEditing(g, c, n, p, compile_ok)

NextEntry == StartSession \/ Resume \/ Cancel \/ SaveExit \/ Clock

SpecEntry == Init /\ [][NextEntry]_vars

\* create_editing_session writes session.json anew, readable again
CreateListed ==
    \E c \in InitialMarkups, n \in DocNames, p \in Prompts :
        /\ CreateEditingSession(c, n, p)
        /\ corrupt' = corrupt \ {SessionId(n, now)}
        /\ listed' = <<>>
        /\ UNCHANGED <<orchVars, loopVars, procVars>>
\* apply_modification on a session whose file loads
ApplyListed ==
    \E s \in DOMAIN sessionJson \ corrupt, r \in Requests, ok \in BOOLEAN,
       g \in GeneratedTexts :
        /\ ApplyModification(s, r, ok, g)
        /\ listed' = (IF sessionJson' = sessionJson THEN listed ELSE <<>>)
        /\ UNCHANGED <<orchVars, loopVars, corrupt, procVars>>
Damage == \E s \in DOMAIN sessionJson : CorruptSession(s)

NextList == CreateListed \/ ApplyListed \/ Clock \/ Damage \/ ListSessions

SpecList == Init /\ [][NextList]_vars

\* the sessions the callers work on are created before they are used, each once
CreateSession ==
    \E c \in InitialMarkups, n \in DocNames, p \in Prompts :
        /\ SessionId(n, now) \notin DOMAIN sessionJson
        /\ CreateEditingSession(c, n, p)
        /\ UNCHANGED <<orchVars, loopVars, auxVars>>
BeginCall ==
    \E p \in Callers, op \in {"apply", "revert", "compile"}, s \in CallIds :
        \E k \in (IF op = "revert" THEN RevertTargets(s) ELSE {0}) :
            CallerBegin(p, op, s, k)
LoadSession == \E p \in Callers : CallerLoad(p)
GenerateModification ==
    \E p \in Callers, ok \in BOOLEAN, g \in GeneratedTexts \ {""} :
        CallerGenerate(p, ok, g)
SaveSession == \E p \in Callers : CallerSaveSession(p)
SaveTex == \E p \in Callers : CallerSaveTex(p)
CompileVersion == \E p \in Callers, ok \in BOOLEAN : CallerCompile(p, ok)

NextCallers ==
    CreateSession \/ BeginCall \/ LoadSession \/ GenerateModification \/ SaveSession
    \/ SaveTex \/ CompileVersion

SpecCallers == Init /\ [][NextCallers]_vars

(***************************************************************************)
(* Properties of the session store, checked under Spec                     *)
(***************************************************************************)
\* the call lastCall records returned a result dictionary (it did not raise)
Returned(op) == lastCall.op = op /\ lastCall.raised = ""
Succeeded(op) == Returned(op) /\ lastCall.result.success
Failed(op) == Returned(op) /\ ~lastCall.result.success

IsPrefix(s, t) == Len(s) <= Len(t) /\ \A i \in 1..Len(s) : t[i] = s[i]
VersionNumbersOf(versions) == {versions[i].version : i \in 1..Len(versions)}
\* the entry of versions that carries version number k
VersionNumbered(versions, k) ==
    versions[CHOOSE i \in 1..Len(versions) : versions[i].version = k]
Contiguous(versions) == \A i \in 1..Len(versions) : versions[i].version = i

\* C1: every persisted session has a non-empty versions list numbered exactly
\* 1, 2, ..., len(versions) in order, and current_version is the number of the
\* last version, after any sequence of create, apply_modification and
\* revert_to_version calls, failed calls included.
C1_VersionsContiguous ==
    \A s \in DOMAIN sessionJson :
        /\ Len(sessionJson[s].versions) >= 1
        /\ Contiguous(sessionJson[s].versions)
        /\ sessionJson[s].current_version = Last(sessionJson[s].versions).version

\* a failed revert on a session that already went through two appending calls
C1_Witness ==
    /\ Failed("revert")
    /\ Len(sessionJson[lastCall.session_id].versions) >= 3

\* C2: history is append-only: the versions list stored before an
\* apply_modification or revert_to_version call is a prefix of the list stored
\* after it, for every session.
C2_AppendOnly ==
    lastCall.op \in {"apply", "revert"} =>
        \A s \in DOMAIN lastCall.before :
            /\ s \in DOMAIN sessionJson
            /\ IsPrefix(lastCall.before[s].versions, sessionJson[s].versions)

\* a successful revert on a session that had two versions
C2_Witness ==
    /\ Succeeded("revert")
    /\ Len(lastCall.before[lastCall.session_id].versions) >= 2

\* C3: after revert_to_version(session, k) succeeds the newest version's markup
\* is the markup stored at version k and its change description is
\* "Reverted to version k"; the revert succeeds for every existing k.
C3_RevertRoundTrip ==
    Returned("revert") =>
        LET k == lastCall.version_number
            old == lastCall.before[lastCall.session_id].versions
            new == sessionJson[lastCall.session_id].versions
        IN  /\ k \in VersionNumbersOf(old) => lastCall.result.success
            /\ lastCall.result.success =>
                 /\ k \in VersionNumbersOf(old)
                 /\ Last(new).latex_code = VersionNumbered(old, k).latex_code
                 /\ Last(new).latex_code = VersionNumbered(new, k).latex_code
                 /\ Last(new).change_description = "Reverted to version " \o ToString(k)
                 /\ lastCall.result.latex_code = VersionNumbered(old, k).latex_code

\* a successful revert to a version that is not the newest and whose markup differs from it
C3_Witness ==
    /\ Succeeded("revert")
    /\ LET old == lastCall.before[lastCall.session_id].versions
       IN  /\ lastCall.version_number < Len(old)
           /\ old[lastCall.version_number].latex_code # Last(old).latex_code

\* C4: a session that went through N successful apply_modification /
\* revert_to_version calls since it was created has exactly N + 1 versions,
\* numbered 1..N+1, whatever the mix of modifications and reverts.
C4_OneVersionPerCall ==
    \A s \in DOMAIN sessionJson :
        /\ Len(sessionJson[s].versions) = appended[s] + 1
        /\ VersionNumbersOf(sessionJson[s].versions) = 1..(appended[s] + 1)

\* a session built by at least one modification and one revert
C4_Witness ==
    \E s \in DOMAIN sessionJson :
        /\ appended[s] >= 2
        /\ \E i, j \in 1..Len(sessionJson[s].versions) :
              /\ sessionJson[s].versions[i].change_description \in Requests
              /\ sessionJson[s].versions[j].change_description = "Reverted to version 1"

\* C5: when the generation call inside apply_modification fails, nothing is
\* persisted (every session.json is what it was before the call) and the failure
\* result carries the unmodified session and the current markup.
C5_FailedGenerationKeepsSession ==
    Failed("apply") =>
        /\ sessionJson = lastCall.before
        /\ lastCall.result.session_data = lastCall.before[lastCall.session_id]
        /\ lastCall.result.latex_code =
               Last(lastCall.before[lastCall.session_id].versions).latex_code

\* a failed modification of a session that already has a modified version
C5_Witness ==
    /\ Failed("apply")
    /\ Len(sessionJson[lastCall.session_id].versions) >= 2

\* C6: revert_to_version with a version number the session does not hold
\* returns a failure naming the version as not found, and persists nothing.
C6_RevertMissingVersion ==
    (/\ Returned("revert")
     /\ lastCall.version_number \notin
            VersionNumbersOf(lastCall.before[lastCall.session_id].versions)) =>
        /\ ~lastCall.result.success
        /\ lastCall.result.error =
               "Version " \o ToString(lastCall.version_number) \o " not found"
        /\ sessionJson = lastCall.before

\* a revert to the number one past the newest version of a session with history
C6_Witness ==
    /\ Failed("revert")
    /\ lastCall.version_number = Len(sessionJson[lastCall.session_id].versions) + 1
    /\ lastCall.version_number >= 3

\* C7: a successful apply_modification appends exactly one version, numbered
\* previous current_version + 1, described by the request text and holding the
\* text the generation client returned; on a fresh session current_version
\* becomes 2 and the second version's description is the request.
C7_ModificationAppends ==
    Succeeded("apply") =>
        LET old == lastCall.before[lastCall.session_id]
            new == sessionJson[lastCall.session_id]
        IN  /\ new.versions = Append(old.versions, Last(new.versions))
            /\ Last(new.versions).version = old.current_version + 1
            /\ Last(new.versions).change_description = lastCall.request
            /\ Last(new.versions).latex_code = lastCall.generated
            /\ new.current_version = old.current_version + 1
            /\ lastCall.result.new_version = new.current_version
            /\ Len(old.versions) = 1 =>
                  /\ new.current_version = 2
                  /\ new.versions[2].change_description = lastCall.request

\* a successful modification of a fresh session
C7_Witness ==
    /\ Succeeded("apply")
    /\ Len(lastCall.before[lastCall.session_id].versions) = 1
    /\ sessionJson[lastCall.session_id].current_version = 2

\* C8: any two create_editing_session calls return different session ids, so a
\* create never lands on a session that an earlier create stored.
C8_SessionIdsUnique ==
    lastCall.op = "create" => lastCall.returned \notin DOMAIN lastCall.before

(***************************************************************************)
(* Properties of compile_latex_to_pdf, checked under SpecCompile           *)
(***************************************************************************)
CallReturned == pc = "idle" /\ outcome.kind = "returned"
CallRaised == pc = "idle" /\ outcome.kind = "raised"

\* C9: whenever compile_latex_to_pdf returns normally, a file exists at the
\* returned path at the moment of return, whether or not output_path and
\* working_dir were given.
C9_ReturnedArtifactExists ==
    CallReturned => Exists(files, outcome.pdf_path)

\* C10: compile_latex_to_pdf raises exactly when no candidate engine left an
\* artifact of its own on disk: it returns (path, log) if some tried candidate
\* did, and raises if none did.  (Calls in which writing document.tex or
\* writing to the output location failed are left aside.)
C10_RaisesIffNoArtifact ==
    ((CallReturned \/ CallRaised) /\ ~(CallRaised /\ outcome.error = "OSError"))
        => (CallRaised <=> left = {})
\* the raised failure of a call in which every candidate failed
AllEnginesFailed == CallRaised /\ outcome.error = "RuntimeError"

\* the engines this call started a process for
Attempted == {processes[i].engine : i \in DOMAIN processes}

Mentions(log, lines) == \E i \in DOMAIN log : log[i] \in lines

\* the log lines lines 123-184 write about one engine
EntriesOf(engine) ==
    {"\n=== Trying engine: " \o engine \o " ===",
     "Engine " \o engine \o " not available, skipping...",
     "EXCEPTION with " \o engine \o ": probe error",
     "EXCEPTION with " \o engine \o ": run error"}

\* C11: when every candidate engine fails, the failure compile_latex_to_pdf
\* raises carries the whole aggregated compilation log, and that log has an
\* entry for every engine that was attempted.
C11_FailureCarriesLog ==
    AllEnginesFailed =>
        /\ outcome.log = compilation_log
        /\ \A e \in Attempted : Mentions(outcome.log, EntriesOf(e))

\* the primary engine's probe found it unavailable
PrimarySkipped ==
    /\ Len(processes) >= 1
    /\ processes[1] = [kind |-> "probe", engine |-> latex_engine, n |-> 0,
                       ended |-> "unavailable"]
    /\ Len(compilation_log) >= 1
    /\ compilation_log[1] = "Engine " \o latex_engine \o " not available, skipping..."

\* the call returned the artifact engine f wrote, both of whose runs exited 0
SucceededWith(f) ==
    /\ CallReturned
    /\ f \in left
    /\ Last(compilation_log) = "SUCCESS: PDF generated successfully with " \o f

C13_TempDirRemoved ==
    ((CallReturned \/ CallRaised) /\ cleanup_temp) =>
        /\ ~Exists(files, TempDir)
        /\ ~Exists(files, PdfPath(TempDir))

\* the copy to the output location raised after an engine had produced the file
C13_Witness ==
    /\ CallRaised
    /\ cleanup_temp
    /\ outcome.error = "OSError"
    /\ left # {}

\* ---------------------------------------------------------------------------
\* Claims about generate_and_compile (SpecOrch)

\* the call ended with a result dictionary / with an exception
Answered == gpc = "idle" /\ result.kind = "returned"
Escaped == gpc = "idle" /\ result.kind = "raised"

\* the first generate_latex call of this call raised
FirstGenerationFailed == generation_calls >= 1 /\ latex_code = "None"

\* some compile_latex_to_pdf call of this call raised, which the first is
\* then among
FirstCompilationFailed == error_msg # "None"

\* C14: if the first generation call fails, generate_and_compile returns a
\* failure result at once: no compilation attempt, no markup file written, no
\* second generation call, and latex_code, tex_file and pdf_file all null.
C14_GenerationFailureReturnsAtOnce ==
    FirstGenerationFailed =>
        /\ Answered
        /\ ~result.success
        /\ compilations = <<>>
        /\ tex_writes = <<>>
        /\ generation_calls = 1
        /\ result.latex_code = "None"
        /\ result.tex_file = "None"
        /\ result.pdf_file = "None"

C14_Witness ==
    /\ FirstGenerationFailed
    /\ Answered
    /\ save_tex
    /\ retry_on_error

\* C15: with retry_on_error set and a first compilation that fails, the call
\* makes exactly 2 generation calls and at most 2 compilation attempts before
\* it returns; and in every execution neither number exceeds 2.
C15_TwoGenerationsTwoCompilations ==
    /\ generation_calls <= 2
    /\ Len(compilations) <= 2
    /\ (Answered /\ retry_on_error /\ FirstCompilationFailed) =>
            /\ generation_calls = 2
            /\ Len(compilations) \in {1, 2}

C15_Witness ==
    /\ Answered
    /\ retry_on_error
    /\ FirstCompilationFailed
    /\ Len(compilations) = 2
    /\ result.success

\* C16: when both compilation attempts fail (retry enabled), the compilation
\* log of the failure result is the log of the second attempt, not the first
\* and not absent.
C16_SecondAttemptLog ==
    (Answered /\ Len(compilations) = 2 /\ ~result.success) =>
        result.compilation_log = CompileLog(2)

\* C17: with retry_on_error unset the call makes exactly one generation call
\* and at most one compilation attempt, and when that compilation fails the
\* failure result carries an error message and the markup that was compiled.
C17_NoRetry ==
    ~retry_on_error =>
        /\ generation_calls <= 1
        /\ Len(compilations) <= 1
        /\ Answered =>
               /\ generation_calls = 1
               /\ (Len(compilations) = 1 /\ ~result.success) =>
                      /\ result.error = "LaTeX compilation failed: " \o error_msg
                      /\ error_msg # "None"
                      /\ result.latex_code # "None"
                      /\ result.latex_code = compilations[1].latex_code

C17_Witness ==
    /\ ~retry_on_error
    /\ Answered
    /\ Len(compilations) = 1
    /\ ~result.success

\* C18: the engine override for the alternate CV template holds for the
\* current call only: when the call has returned, the processor's compiler has
\* the engine it had before the call.
C18_OverrideForThisCallOnly ==
    Answered => latex_compiler = engine_at_call

\* C19: no failure escapes generate_and_compile as an exception: whatever the
\* generation, the forced engine switch and the compilation do, the call
\* returns a dictionary with a success flag and, on failure, an error message.
C19_NoExceptionEscapes ==
    (gpc = "idle" /\ result.kind # "none") =>
        /\ result.kind = "returned"
        /\ result.success \in BOOLEAN
        /\ ~result.success => result.error # "None"

\* ---------------------------------------------------------------------------
\* Claims about the interactive edit loop (SpecLoop)

LoopStates == {"Reviewing", "ConfirmingSatisfaction", "ViewingHistory", "Modifying",
               "Reverting"}

\* C20: the edit loop ends only by cancel (a failure result, and no write to
\* the session store), by satisfied and a yes confirmation (success), or by
\* save-and-exit (success); a no confirmation, viewing the history, a
\* modification and a revert, whatever their outcome, return to Reviewing.
C20_LoopTransitions ==
    /\ (lpc = "idle" /\ step.from \in LoopStates) =>
           /\ loop_result.kind = "returned"
           /\ \/ /\ step.from = "Reviewing" /\ step.input = "cancel"
                 /\ ~loop_result.success
                 /\ ~step.wrote
              \/ /\ step.from = "ConfirmingSatisfaction" /\ step.input = "yes"
                 /\ loop_result.success
              \/ /\ step.from = "Reviewing" /\ step.input = "save_exit"
                 /\ loop_result.success
    /\ (step.from = "ConfirmingSatisfaction" /\ step.input = "no") => lpc = "Reviewing"
    /\ step.from \in {"ViewingHistory", "Modifying", "Reverting"} => lpc = "Reviewing"

\* a modification or a revert was appended and its compilation failed
CompileFailedAfterAppend ==
    /\ step.from \in {"Modifying", "Reverting"}
    /\ step.wrote
    /\ step.compiled = "failed"

\* C21: when compilation fails after a modification or a revert was appended
\* in the loop, the loop is back in Reviewing with an error shown, and the
\* appended version stays in the persisted history: the store's
\* current_version is one higher than before the action.
C21_FailedCompileKeepsVersion ==
    CompileFailedAfterAppend =>
        /\ lpc = "Reviewing"
        /\ step.shown = "error"
        /\ sessionJson[loop_session].current_version
               = lastCall.before[loop_session].current_version + 1
        /\ Len(sessionJson[loop_session].versions)
               = Len(lastCall.before[loop_session].versions) + 1
        /\ Last(sessionJson[loop_session].versions).version
               = sessionJson[loop_session].current_version

C21_Witness ==
    /\ CompileFailedAfterAppend
    /\ step.from = "Reverting"
    /\ current_version + 1 = sessionJson[loop_session].current_version

\* ---------------------------------------------------------------------------
\* Claims about list_sessions (SpecList)

Listed == lastCall.op = "list"

\* the folders whose session.json parses
Parseable == DOMAIN sessionJson \ corrupt

\* C22: whatever session files fail to parse, list_sessions returns normally,
\* with one summary for every parseable session and none for the others.
C22_ListIsolatesCorruption ==
    Listed =>
        /\ lastCall.raised = ""
        /\ \A id \in Parseable :
               \E s \in lastCall.returned :
                   /\ s.session_id = id
                   /\ s.document_name = sessionJson[id].document_name
                   /\ s.current_version = sessionJson[id].current_version
                   /\ s.total_versions = Len(sessionJson[id].versions)
        /\ \A s \in lastCall.returned : s.session_id \in Parseable
        /\ Cardinality(lastCall.returned) = Cardinality(Parseable)

C22_Witness ==
    /\ Listed
    /\ corrupt # {}
    /\ Parseable # {}

TexFilesOf(fs, session_id) ==
    [path \in {TexPath(session_id, n) : n \in 1..(MaxWrites + 1)} \cap DOMAIN fs
        |-> fs[path]]

\* the v{n}.pdf files of a session
PdfFilesOf(pdfs, session_id) ==
    {VersionPdf(session_id, n) : n \in 1..(MaxWrites + 1)} \cap pdfs

\* C24: a step of apply_modification, revert_to_version or
\* compile_current_version on one session leaves session.json and the version
\* files of every other session as they were, however the steps of the two
\* callers interleave.
C24_OtherSessionsUntouched ==
    [][callers' # callers =>
          \A b \in DOMAIN sessionJson :
              b # acted' =>
                  /\ b \in DOMAIN sessionJson'
                  /\ sessionJson'[b] = sessionJson[b]
                  /\ TexFilesOf(texFiles', b) = TexFilesOf(texFiles, b)
                  /\ PdfFilesOf(pdfFiles', b) = PdfFilesOf(pdfFiles, b)]_vars

\* both callers are in the middle of a call, on different stored sessions, and
\* one of them has written its session.json
C24_Witness ==
    /\ callers[1].pc = "save_tex"
    /\ callers[2].pc \in {"save_session", "compile"}
    /\ callers[1].session_id # callers[2].session_id
    /\ callers[2].session_id \in DOMAIN sessionJson

\* ---------------------------------------------------------------------------
\* Claims about generate_latex (SpecOrch)

\* C25: generate_latex fails when the remote call errors, times out or answers
\* with empty text, and the markup generate_and_compile gets from it is never
\* the empty string.
C25_NoEmptyMarkup ==
    /\ (response.kind \in {"error", "timeout"} \/ IsBlank(response.text)) =>
           (Answered /\ ~result.success)
    /\ latex_code # ""

\* ---------------------------------------------------------------------------
\* Claims about the candidate loop of _run_latex_compilation (SpecCompile)

\* the number of probes among the first i engine processes of the call
ProbesUpTo(i) == Cardinality({j \in 1..i : processes[j].kind = "probe"})

\* C26: the candidate list is the configured primary followed by the other
\* two known engines, pdflatex -> xelatex, lualatex; xelatex -> lualatex,
\* pdflatex; lualatex -> xelatex, pdflatex; no engine is in it twice, and the
\* engines are probed and run in the order of the list.
C26_CandidateOrder ==
    engines_to_try # <<>> =>
        /\ latex_engine = "pdflatex" =>
               engines_to_try = <<"pdflatex", "xelatex", "lualatex">>
        /\ latex_engine = "xelatex" =>
               engines_to_try = <<"xelatex", "lualatex", "pdflatex">>
        /\ latex_engine = "lualatex" =>
               engines_to_try = <<"lualatex", "xelatex", "pdflatex">>
        /\ \A i, j \in DOMAIN engines_to_try :
               i # j => engines_to_try[i] # engines_to_try[j]
        /\ \A i \in DOMAIN processes :
               /\ ProbesUpTo(i) \in DOMAIN engines_to_try
               /\ processes[i].engine = engines_to_try[ProbesUpTo(i)]

\* a call on a known engine went through all three candidates, the second of
\* which was run
C26_Witness ==
    /\ pc = "exhausted"
    /\ latex_engine = "xelatex"
    /\ ProbesUpTo(Len(processes)) = 3
    /\ \E i \in DOMAIN processes :
           processes[i].kind = "run" /\ processes[i].engine = "lualatex"

\* the last engine process of the call was a run that ended in the given way
LastRunEnded(how) ==
    /\ processes # <<>>
    /\ Last(processes).kind = "run"
    /\ Last(processes).ended = how

\* C27: when a run of a candidate exits non-zero and document.pdf exists
\* afterwards, the call returns that file with a log that ends in the warning
\* for this candidate, without raising and without another probe or run; when
\* no document.pdf exists, the candidate is given up and the loop goes to the
\* next one.  (Calls in which writing to the output location failed are left
\* aside.)
C27_PartialSuccess ==
    [][/\ (pc = "check" /\ LastRunEnded("nonzero")) =>
              IF Exists(files, PdfPath(working_dir))
              THEN /\ pc' = "copy"
                   /\ Last(compilation_log') =
                          "WARNING: PDF generated with errors using " \o Engine
                   /\ processes' = processes
              ELSE /\ candidate' = candidate + 1
                   /\ pc' \in {"probe", "exhausted"}
       /\ (pc = "copy" /\ LastRunEnded("nonzero")) =>
              /\ processes' = processes
              /\ \/ /\ outcome'.kind = "returned"
                    /\ outcome'.log = compilation_log
                 \/ /\ outcome'.kind = "raised"
                    /\ outcome'.error = "OSError"]_vars

\* the engine processes of the call that were runs of engine e, in order
RunsOf(e) ==
    SelectSeq(processes, LAMBDA p : p.kind = "run" /\ p.engine = e)

\* the check after the runs of e found a clean success
CleanSuccess(e) ==
    /\ pc \in {"copy", "idle"}
    /\ compilation_log # <<>>
    /\ Last(compilation_log) = "SUCCESS: PDF generated successfully with " \o e

\* C28: a clean success with engine E is reported only after exactly two runs
\* of E, both of which exited with code 0, and with document.pdf on disk; the
\* log the call returns is not empty and has a "Run 1" and a "Run 2" entry
\* that name E.
C28_CleanSuccessAfterTwoRuns ==
    \A e \in ConfiguredEngines :
        CleanSuccess(e) =>
            /\ Len(RunsOf(e)) = 2
            /\ \A i \in 1..2 : RunsOf(e)[i].n = i /\ RunsOf(e)[i].ended = "zero"
            /\ Len(processes) >= 2
            /\ processes[Len(processes) - 1] = RunsOf(e)[1]
            /\ Last(processes) = RunsOf(e)[2]
            /\ pc = "copy" => Exists(files, PdfPath(working_dir))
            /\ CallReturned =>
                   /\ outcome.log # <<>>
                   /\ Mentions(outcome.log, {"Run 1 with " \o e \o ":"})
                   /\ Mentions(outcome.log, {"Run 2 with " \o e \o ":"})

\* the call returned a clean success of the first fallback, after the primary
\* had been run and had left nothing
C28_Witness ==
    /\ CallReturned
    /\ Fallbacks(latex_engine) # <<>>
    /\ CleanSuccess(Fallbacks(latex_engine)[1])
    /\ Len(RunsOf(latex_engine)) >= 1

\* C29: when a run of a candidate times out, the run counts as a failure and
\* the loop goes on to the next candidate; the call never returns document.pdf
\* as the product of a candidate whose run timed out.
C29_TimeoutMovesOn ==
    [][/\ (pc = "check" /\ LastRunEnded("timeout")) =>
              /\ ~success
              /\ candidate' = candidate + 1
              /\ pc' \in {"probe", "exhausted"}
       /\ pc' = "copy" => ~LastRunEnded("timeout")]_vars

\* document.pdf was written in the working directory during this call
ArtifactLeft == files[PdfPath(working_dir)] = "fresh"

\* C30: the candidates are tried one after the other: a step starts at most
\* one engine process, which is of the candidate at hand and starts after all
\* earlier ones have ended; a candidate is probed only when no candidate before
\* it has left a document.pdf, and a run is started with a document.pdf of
\* this call on disk only as the next run of the candidate that wrote it.
C30_StrictlySequential ==
    [][/\ Len(processes') <= Len(processes) + 1
       /\ Len(processes') = Len(processes) + 1 =>
              /\ SubSeq(processes', 1, Len(processes)) = processes
              /\ Last(processes').engine = Engine
              /\ (Last(processes').kind = "probe" /\ candidate > 1) =>
                     /\ Last(processes).engine = engines_to_try[candidate - 1]
                     /\ ~ArtifactLeft
              /\ (Last(processes').kind = "run" /\ ArtifactLeft) =>
                     /\ Last(processes).kind = "run"
                     /\ Last(processes).engine = Engine]_vars

\* ---------------------------------------------------------------------------
\* Claims about the retry of generate_and_compile (SpecOrch)

\* the lines of hints are all in context
HasLines(context, hints) ==
    \A i \in DOMAIN hints : \E j \in DOMAIN context : context[j] = hints[i]

\* C31: when the first compilation attempt fails and the engines' output of
\* that attempt held a known error signature, the context of the regeneration
\* call has the hint lines of every such signature, and it always has the
\* general hints.
C31_RegenerationContextHasHints ==
    enhanced_context # <<>> =>
        /\ HasLines(enhanced_context, GeneralHints)
        /\ \A sig \in compilations[1].printed : HasLines(enhanced_context, Hints(sig))

\* the markup has the marker of the alternate CV template (line 84)
HasTemplateMarker(code) == Contains("\\documentclass", code) /\ Contains("altacv", code)

\* C32: every compilation attempt of a call, the first and the retry, whose
\* markup has a document-class declaration and "altacv" in it is made with
\* xelatex as the primary engine, whatever engine was configured.
C32_TemplateCompiledWithXelatex ==
    \A i \in DOMAIN compilations :
        HasTemplateMarker(compilations[i].latex_code) =>
            compilations[i].engine = "xelatex"

\* ---------------------------------------------------------------------------
\* Claims about generate_with_custom_options (SpecCustom)

\* C33: generate_with_custom_options does not retry: a call makes exactly one
\* generation call and at most one compilation attempt, and a compilation
\* failure is returned as a failure result that carries the generated markup.
C33_CustomOptionsNoRetry ==
    /\ generation_calls <= 1
    /\ Len(compilations) <= 1
    /\ Answered =>
           /\ generation_calls = 1
           /\ (Len(compilations) = 1 /\ ~result.success) =>
                  /\ result.error # "None"
                  /\ result.latex_code = latex_code
                  /\ result.latex_code = compilations[1].latex_code
                  /\ response.kind = "text"
                  /\ result.latex_code = Strip(response.text)

\* a call whose one compilation failed has returned
C33_Witness ==
    /\ Answered
    /\ generation_calls = 1
    /\ Len(compilations) = 1
    /\ ~result.success
    /\ latex_code # ""

\* ---------------------------------------------------------------------------
\* Claims about the entry of the interactive loop (SpecLoop)

\* start_interactive_editing or resume_session has just been called
Entered == step.from = "idle"

\* C34: the loop is in Reviewing right after start_interactive_editing or
\* resume_session only if the current version of the session was compiled
\* successfully; when the initial generation, the load of the session or
\* that compilation fails, the call returns a failure result and no prompt is
\* shown.
C34_ReviewingOnlyAfterCompile ==
    Entered =>
        /\ lpc = "Reviewing" =>
               /\ step.compiled = "ok"
               /\ loop_session \in DOMAIN sessionJson
               /\ current_version = sessionJson[loop_session].current_version
               /\ current_pdf_path = VersionPdf(loop_session, current_version)
        /\ step.compiled # "ok" =>
               /\ lpc = "idle"
               /\ loop_result.kind = "returned"
               /\ ~loop_result.success

\* C35: a start_interactive_editing call whose initial generation succeeds
\* creates one session, the one it goes on with, and leaves every other
\* session as it was; the new session has one version, numbered 1, whose
\* markup (in session.json and in v1.tex) is the markup the generation
\* returned; a call whose generation fails creates nothing.
C35_OneSessionPerStart ==
    [][(lpc = "idle" /\ step'.input = "start") =>
          IF step'.generated # "None"
          THEN /\ loop_session' \in DOMAIN sessionJson'
               /\ DOMAIN sessionJson' = DOMAIN sessionJson \cup {loop_session'}
               /\ \A other \in DOMAIN sessionJson \ {loop_session'} :
                      sessionJson'[other] = sessionJson[other]
               /\ \A path \in DOMAIN texFiles \ {TexPath(loop_session', 1)} :
                      texFiles'[path] = texFiles[path]
               /\ Len(sessionJson'[loop_session'].versions) = 1
               /\ sessionJson'[loop_session'].versions[1].version = 1
               /\ sessionJson'[loop_session'].versions[1].latex_code = step'.generated
               /\ sessionJson'[loop_session'].current_version = 1
               /\ texFiles'[TexPath(loop_session', 1)] = step'.generated
          ELSE /\ sessionJson' = sessionJson
               /\ texFiles' = texFiles]_vars

\* a second session was started, with other markup than the first
C35_Witness ==
    /\ Entered
    /\ step.input = "start"
    /\ step.generated # "None"
    /\ Cardinality(DOMAIN sessionJson) = 2
    /\ \E other \in DOMAIN sessionJson :
           sessionJson[other].versions[1].latex_code # step.generated

\* ---------------------------------------------------------------------------
\* Claims about the version the loop holds (SpecLoop)

\* the loop ended with _finalize_session
LoopFinalized ==
    /\ lpc = "idle"
    /\ step.from \in {"Reviewing", "ConfirmingSatisfaction"}
    /\ loop_result.kind = "returned"
    /\ loop_result.success

\* C36: in Reviewing, and when the loop finalizes, the version number the
\* loop holds (displayed, and reported as final_version) is the
\* current_version of the session in the store, after any modifications,
\* reverts and history views, failed compilations included.
C36_LoopVersionIsStoreVersion ==
    /\ lpc = "Reviewing" =>
           /\ loop_session \in DOMAIN sessionJson
           /\ current_version = sessionJson[loop_session].current_version
    /\ LoopFinalized =>
           loop_result.final_version = sessionJson[loop_session].current_version

\* ---------------------------------------------------------------------------
\* Claims about the result dictionary of generate_and_compile (SpecOrch)

\* C37: every result generate_and_compile returns is consistent: success
\* exactly when pdf_file is set and error is null, failure exactly when error
\* is set and pdf_file is null, and tex_file set only if save_tex was true and
\* the first generation succeeded (so that the file was written).
C37_ResultConsistent ==
    Answered =>
        /\ result.success <=> (result.pdf_file # "None" /\ result.error = "None")
        /\ ~result.success <=> (result.error # "None" /\ result.pdf_file = "None")
        /\ result.tex_file # "None" =>
               /\ save_tex
               /\ ~FirstGenerationFailed
               /\ tex_writes # <<>>

\* both compilations failed, with the markup saved
C37_Witness ==
    /\ Answered
    /\ ~result.success
    /\ Len(compilations) = 2
    /\ result.tex_file = TexFile

\* ---------------------------------------------------------------------------
\* Claims about the length of a compile_latex_to_pdf call (SpecCompile)

\* the engine runs among the engine processes of the call
Runs == {i \in DOMAIN processes : processes[i].kind = "run"}

\* at most 3 probes and 6 runs, at most 2 runs of a candidate, and a second
\* run only right after a first run of the same candidate that exited zero
ProcessesBounded ==
    /\ ProbesUpTo(Len(processes)) <= 3
    /\ Cardinality(Runs) <= 6
    /\ \A e \in ConfiguredEngines :
           /\ Len(RunsOf(e)) <= 2
           /\ \A k \in DOMAIN RunsOf(e) : RunsOf(e)[k].n = k
    /\ \A i \in Runs :
           processes[i].n = 2 =>
               /\ i > 1
               /\ processes[i - 1].kind = "run"
               /\ processes[i - 1].engine = processes[i].engine
               /\ processes[i - 1].n = 1
               /\ processes[i - 1].ended = "zero"

\* a bound on the steps the call has still to make: none when it has ended,
\* one for the copy or the final raise, and for a candidate the probe, two
\* runs and the check, with as much for every candidate after it
StepsLeft ==
    IF pc = "idle" THEN 0
    ELSE IF pc \in {"copy", "exhausted"} THEN 1
    ELSE IF pc = "write_tex" THEN 14
    ELSE 4 * (Len(engines_to_try) - candidate)
         + (IF pc = "probe" THEN 5
            ELSE IF pc = "run" THEN (IF run_number = 0 THEN 4 ELSE 3)
            ELSE 2)

\* C38: every compile_latex_to_pdf call ends, with a returned result or a
\* raised failure, after at most 3 availability probes and at most 6 engine
\* runs, at most 2 per candidate, the second only after the first exited zero
\* without timing out: every step of the call (each of which ends when its
\* external process returns or times out) lowers the bound on the steps
\* left, and the call has ended when the bound is 0.
C38_CallTerminates ==
    [][/\ ProcessesBounded'
       /\ pc # "idle" =>
              /\ StepsLeft' < StepsLeft
              /\ StepsLeft' >= 0
              /\ pc' = "idle" => outcome'.kind \in {"returned", "raised"}]_vars

\* a call in which all three candidates ran twice and left no artifact
C38_Witness ==
    /\ CallRaised
    /\ ProbesUpTo(Len(processes)) = 3
    /\ Cardinality(Runs) = 6

\* ---------------------------------------------------------------------------
\* Claims about a failed regeneration (SpecOrch)

\* the second generate_latex call of this call was made and the remote call
\* behind it failed
RegenerationFailed == generation_calls = 2 /\ response.kind \in {"error", "timeout"}

\* C39: if the regeneration after a failed first compilation fails, the call
\* returns a failure result with no second compilation attempt; latex_code in
\* the result is the markup of the first generation, and with save_tex set
\* the .tex file on disk holds that markup still.
C39_FailedRegeneration ==
    RegenerationFailed =>
        /\ Answered
        /\ ~result.success
        /\ result.error = "LaTeX regeneration failed: " \o GenerateLatex(response).text
        /\ Len(compilations) = 1
        /\ result.latex_code # "None"
        /\ result.latex_code = compilations[1].latex_code
        /\ save_tex =>
               /\ result.tex_file = TexFile
               /\ tex_writes = <<result.latex_code>>
               /\ tex_on_disk = result.latex_code

\* the regeneration failed in a call that saved the markup of its first
\* generation
C39_Witness ==
    /\ RegenerationFailed
    /\ Answered
    /\ save_tex
    /\ result.latex_code = "\\documentclass{article} letter"

\* ---------------------------------------------------------------------------
\* Claims about two writers on one session (SpecCallers)

\* the record's versions are numbered 1..len, and current_version is the
\* number of the last
Numbered(session_data) ==
    /\ Len(session_data.versions) >= 1
    /\ \A i \in DOMAIN session_data.versions : session_data.versions[i].version = i
    /\ session_data.current_version = Len(session_data.versions)

\* C40: with two writers interleaving the load and save steps of
\* apply_modification and revert_to_version on the same session, each write of
\* session.json being atomic, every persisted record (and every copy a writer
\* is about to persist) has version numbers exactly 1..len(versions) and
\* current_version equal to the last version's number, even where the update
\* of one writer is overwritten by the other's.
C40_ConcurrentRecordsNumbered ==
    /\ \A s \in DOMAIN sessionJson : Numbered(sessionJson[s])
    /\ \A p \in Callers :
           callers[p].pc \in {"save_session", "save_tex"} =>
               Numbered(callers[p].session_data)

\* both writers loaded the same record of one session and both have saved:
\* the record on disk is the second writer's, and the version the first
\* appended is not in it
C40_Witness ==
    /\ callers[1].pc = "save_tex"
    /\ callers[2].pc = "save_tex"
    /\ callers[1].session_id = callers[2].session_id
    /\ callers[1].session_data # callers[2].session_data
    /\ Len(callers[1].session_data.versions) = Len(callers[2].session_data.versions)
    /\ sessionJson[callers[2].session_id] = callers[2].session_data

====
